---------------------------- MODULE Spec2Model ----------------------------
(***************************************************************************)
(* A model of dtalkin/balls: the collision kernel and body simulators of   *)
(* balls9.py and pend.py, and the note tables, chord parser, oscillator    *)
(* banks and audio stream of tune.py.                                      *)
(*                                                                         *)
(* Numbers.  The program computes in floating point; the model computes    *)
(* in exact rational arithmetic.  A rational is a pair <<n, d>> with d > 0 *)
(* and gcd(n, d) = 1.  Angles are measured in units of pi/200, so that the *)
(* constants the code compares angles with (pi/2, pi, 2*pi) are the        *)
(* integers 100, 200 and 400.                                              *)
(***************************************************************************)
EXTENDS Integers, Sequences, FiniteSets, TLC

VARIABLES
    \* ---- body simulators (balls9.Orbits, pend.Pendulums)
    mode,       \* "orbit" | "pend": which simulator owns the bodies
    bodies,     \* the ordered collection: records [m, angle, v]
    ticks,      \* ticks run so far
    passes,     \* collisions resolved in each pass of the last tick
    collided,   \* the set UpdatePositions returned in the last tick
    pinged,     \* the slots Orbits.Increment pinged in the last tick
    resolved,   \* what each Collide of the last tick that resolved returned
    ping_calls, \* the calls of music.Ping of the last tick, in order
    printed,    \* what the last tick printed
    \* ---- collision kernel applied to drawn inputs
    kin,        \* the two bodies handed to the kernel
    kout,       \* what the kernel returned for them
    \* ---- note tables and chord parser (tune.Notes)
    note_gen,   \* the Notes object: [tonic, n_semis, notes, names]
    call,       \* the last call made on it: [op, spec, ret]
    prev,       \* the call before that, when it had the same specifier
    \* ---- oscillator banks (tune.Tones)
    tone_gen,   \* the Tones object
    sig,        \* the list the last GetSamples returned
    applied,    \* per ping slot, the amplitude applied to each sample of it
    op,         \* the last operation: [name, ind]
    nops,       \* operations so far
    \* ---- chord progression (balls9.Baller, tune.Music)
    progression,    \* Baller.progression
    prog_step_i,    \* Baller.prog_step_i
    chords,         \* Music.chords
    n_balls,        \* len(orbit.balls)
    trail,          \* cursor and chord in the bank after each advance
    \* ---- audio stream (tune.Music)
    music,          \* audio_on, pa_stream and where the two threads are
    \* ---- command line of pend.py (pend.main)
    args,           \* sys.argv[1:]: the pendulum specifications given
    main_pends,     \* main's pends: the list the Pendulums are built from
    stderr,         \* what has been written to sys.stderr
    \* ---- the two threads inside the Tones object while streaming
    audio_thread,   \* the audio callback: its position and locals in GetSamples
    main_thread,    \* the Tk thread: its position in the call it is making
    \* ---- Tk timers (master.after, master.after_cancel)
    timers          \* pending callbacks, the after_id attributes, is_running

simVars == <<mode, bodies, ticks, passes, collided, pinged, printed, resolved,
            ping_calls>>
kernVars == <<kin, kout>>
notesVars == <<note_gen, call, prev>>
tonesVars == <<tone_gen, sig, applied, op, nops>>
ballerVars == <<progression, prog_step_i, chords, n_balls, trail, music>>
tuneVars == <<notesVars, tonesVars, ballerVars>>
mainVars == <<args, main_pends, stderr>>
threadVars == <<audio_thread, main_thread>>
procVars == <<mainVars, threadVars, timers>>
vars == <<mode, bodies, ticks, passes, collided, pinged, printed, resolved,
          ping_calls, kin, kout,
          note_gen, call, prev, tone_gen, sig, applied, op, nops,
          progression, prog_step_i, chords, n_balls, trail, music,
          args, main_pends, stderr, audio_thread, main_thread, timers>>

\* No Notes object has been constructed.
NotesIdle == note_gen = <<>> /\ call = <<>> /\ prev = <<>>
\* No Tones object has been constructed.
TonesIdle ==
    tone_gen = <<>> /\ sig = <<>> /\ applied = <<>> /\ op = <<>> /\ nops = 0

\* No Baller has been constructed.
BallerIdle ==
    /\ progression = <<>> /\ prog_step_i = 0 /\ chords = <<>>
    /\ n_balls = 0 /\ trail = <<>> /\ music = <<>>

TuneIdle == NotesIdle /\ TonesIdle /\ BallerIdle

\* pend.main has not run.
MainIdle == args = <<>> /\ main_pends = <<>> /\ stderr = <<>>
\* No thread is inside the Tones object.
ThreadsIdle == audio_thread = <<>> /\ main_thread = <<>>
\* No Tk event loop.
ProcIdle == MainIdle /\ ThreadsIdle /\ timers = <<>>

(***************************************************************************)
(* Exact rational arithmetic.  Intermediate values are handed on as        *)
(* operator parameters.                                                    *)
(***************************************************************************)
Abs(x) == IF x < 0 THEN -x ELSE x

RECURSIVE GCD(_, _)
GCD(a, b) == IF b = 0 THEN a ELSE GCD(b, a % b)

DivBoth(n, d, k) == <<n \div k, d \div k>>
Norm(n, d) == IF d < 0 THEN DivBoth(-n, -d, GCD(Abs(n), -d))
              ELSE DivBoth(n, d, GCD(Abs(n), d))

R(n) == <<n, 1>>
Zero == <<0, 1>>

\* Sums go through the least common denominator l, which keeps the
\* intermediate integers small.
SumOver(x, y, l) == Norm(x[1] * (l \div x[2]) + y[1] * (l \div y[2]), l)
RAdd(x, y) == SumOver(x, y, (x[2] \div GCD(x[2], y[2])) * y[2])
RSub(x, y) == SumOver(x, <<-y[1], y[2]>>, (x[2] \div GCD(x[2], y[2])) * y[2])

\* Products cancel crosswise (g1, g2) before multiplying.
ProdOver(x, y, g1, g2) ==
    <<(x[1] \div g1) * (y[1] \div g2), (x[2] \div g2) * (y[2] \div g1)>>
RMul(x, y) ==
    IF x[1] = 0 \/ y[1] = 0 THEN Zero
    ELSE ProdOver(x, y, GCD(Abs(x[1]), y[2]), GCD(Abs(y[1]), x[2]))

\* x / y for y # 0
RDiv(x, y) == IF y[1] < 0 THEN RMul(x, <<-y[2], -y[1]>>)
              ELSE RMul(x, <<y[2], y[1]>>)

RLt(x, y) == x[1] * y[2] < y[1] * x[2]
RLe(x, y) == x[1] * y[2] <= y[1] * x[2]

\* int(x): truncation toward zero
RTrunc(x) == IF x[1] >= 0 THEN x[1] \div x[2] ELSE -((-x[1]) \div x[2])

(***************************************************************************)
(* Angle constants, in units of pi/200.                                    *)
(***************************************************************************)
HalfPiUnits == 100
piby2 == <<HalfPiUnits, 1>>
pi == <<2 * HalfPiUnits, 1>>
pi2 == <<4 * HalfPiUnits, 1>>

\* math.fmod(x, 2.0 * math.pi): x - 2*pi * trunc(x / (2*pi)); the result
\* has the sign of x and a magnitude below 2*pi.
FmodPi2(x) ==
    <<x[1] - (4 * HalfPiUnits) * x[2] * RTrunc(<<x[1], (4 * HalfPiUnits) * x[2]>>), x[2]>>

(***************************************************************************)
(* Collision kernel.                                                       *)
(***************************************************************************)
\* A slip of the sign in the second line of Elastic.
ElasticSignSlip(m1, m2, v1, v2) ==
    <<RSub(RAdd(RDiv(RAdd(RMul(m2, v2),
                          RMul(m1, RSub(RMul(<<2, 1>>, v1), v2))),
                     RAdd(m1, m2)), v1), v2),
      RDiv(RAdd(RMul(m2, v2), RMul(m1, RSub(RMul(<<2, 1>>, v1), v2))),
           RAdd(m1, m2))>>

\* vp2 of Elastic
ElasticVp2(m1, m2, v1, v2) ==
    RDiv(RAdd(RMul(m2, v2), RMul(m1, RSub(RMul(<<2, 1>>, v1), v2))),
         RAdd(m1, m2))

\* <<vp1, vp2>> of Elastic, given vp2
ElasticPair(v1, v2, vp2) == <<RSub(RAdd(vp2, v2), v1), vp2>>

\* balls9.Elastic and pend.Elastic (the same text); m1 + m2 # 0.
Elastic(m1, m2, v1, v2) == ElasticPair(v1, v2, ElasticVp2(m1, m2, v1, v2))

\* if angle < 0.0: pi2 + angle, else angle
Lifted(angle) == IF angle[1] < 0 THEN RAdd(pi2, angle) ELSE angle

\* The seam shift done for the first body only.
SeamShiftOneSided(sa, oa) ==
    IF RLt(sa, piby2) /\ RLt(pi, oa) THEN <<RAdd(sa, pi2), oa>>
    ELSE <<sa, oa>>

\* The seam shift: the angle below pi/2 is moved up by a turn when the
\* other is above pi.
SeamShift(sa, oa) ==
    IF RLt(sa, piby2) /\ RLt(pi, oa) THEN <<RAdd(sa, pi2), oa>>
    ELSE IF RLt(oa, piby2) /\ RLt(pi, sa) THEN <<sa, RAdd(oa, pi2)>>
    ELSE <<sa, oa>>

\* The two angles as WillCollide compares them.
Unwrapped(sangle, oangle) == SeamShift(Lifted(sangle), Lifted(oangle))

\* The comparison with < in place of <=.
SignChangeStrict(u, sv, ov) ==
    RMul(RSub(u[1], u[2]), RSub(RAdd(u[1], sv), RAdd(u[2], ov)))[1] < 0

\* (t1 * t2) <= 0.0 for t1 = sa - oa, t2 = sa + sv - (oa + ov)
SignChange(u, sv, ov) ==
    RMul(RSub(u[1], u[2]), RSub(RAdd(u[1], sv), RAdd(u[2], ov)))[1] <= 0

\* Ball.WillCollide(self, other)
WillCollide(self, other) ==
    SignChange(Unwrapped(self.angle, other.angle), self.v, other.v)

\* speed * del_t / length
AngularStep(pend) == RDiv(RMul(pend.speed, pend.del_t), pend.length)

\* Pend.WillCollide(self, other)
PendWillCollide(self, other) ==
    SignChange(Unwrapped(self.angle, other.angle),
               AngularStep(self), AngularStep(other))

(***************************************************************************)
(* Body simulators.  A ball is [m, angle, v, ball_ind]; a pendulum is      *)
(* [mass, length, angle, speed, del_t].  Sequences are 1-based, so the     *)
(* body the code keeps at list position b is bodies[b + 1].                *)
(***************************************************************************)
MaxPasses == 5

\* The angle advanced without the fmod.
UpdatePositionNoWrap(ball) == [ball EXCEPT !.angle = RAdd(ball.angle, ball.v)]

\* Ball.UpdatePosition: the angle only; drawing is left out.
UpdatePosition(ball) == [ball EXCEPT !.angle = FmodPi2(RAdd(ball.angle, ball.v))]

\* The sign of cos(angle) for an angle within (-2*pi, 2*pi), lifted to
\* [0, 2*pi): the model's stand-in for math.cos, which keeps the direction
\* of the force and drops its magnitude.
CosSignLifted(a) ==
    IF a = piby2 \/ a = <<3 * HalfPiUnits, 1>> THEN Zero
    ELSE IF RLt(piby2, a) /\ RLt(a, <<3 * HalfPiUnits, 1>>) THEN <<-1, 1>>
    ELSE <<1, 1>>
CosSign(angle) == CosSignLifted(Lifted(FmodPi2(angle)))

\* g = 1.0 (pend.py rebinds it), in the model's units: speeds are in
\* (pi/200) m/s, so that speed * del_t / length is an angle in units of
\* pi/200, and g = 1.0 * 200/pi, rounded to 64.
g == <<64, 1>>

\* The last two lines of Pend.Step, given the new speed.
Swing(pend, speed) ==
    [pend EXCEPT !.speed = speed,
                 !.angle = FmodPi2(RAdd(pend.angle,
                              RDiv(RMul(speed, pend.del_t), pend.length)))]

\* Pend.Step; mass # 0 (f / mass raises ZeroDivisionError otherwise):
\* f = mass * cos(angle) * g, a = f / mass, speed += a * del_t.
Step(pend) ==
    Swing(pend, RAdd(pend.speed,
                     RMul(RDiv(RMul(RMul(pend.mass, CosSign(pend.angle)), g),
                               pend.mass),
                          pend.del_t)))

\* Only self.v is assigned.
WithVSelfOnly(balls, b, b2, vp) == [balls EXCEPT ![b].v = vp[1]]

\* self.v, other.v = vp
WithV(balls, b, b2, vp) == [balls EXCEPT ![b].v = vp[1], ![b2].v = vp[2]]
WithSpeed(pends, b, b2, vp) == [pends EXCEPT ![b].speed = vp[1], ![b2].speed = vp[2]]

\* Ball.Collide(self, other) for the list positions b < b2: the list
\* after the call.  It returns (self.ball_ind, other.ball_ind) exactly when
\* WillCollide held.
Collide(balls, b, b2) ==
    IF WillCollide(balls[b], balls[b2])
    THEN WithV(balls, b, b2,
               Elastic(balls[b].m, balls[b2].m, balls[b].v, balls[b2].v))
    ELSE balls

\* Pend.Collide(self, other): the list after the call.  It returns True
\* exactly when WillCollide held.
PendCollide(pends, b, b2) ==
    IF PendWillCollide(pends[b], pends[b2])
    THEN WithSpeed(pends, b, b2,
                   Elastic(pends[b].mass, pends[b2].mass,
                           pends[b].speed, pends[b2].speed))
    ELSE pends

\* Elastic(m1, m2, v1, v2) divides by m1 + m2: ZeroDivisionError when the
\* masses add up to 0.
ElasticRaises(m1, m2) == RAdd(m1, m2)[1] = 0

\* What Ball.Collide returns when it resolved a collision:
\* self.ball_ind, other.ball_ind
DidCollide(self, other) == <<self.ball_ind, other.ball_ind>>

\* An update that takes the first item only.
UpdateFirst(hit, did_collide) == hit \cup {did_collide[1]}

\* collided.update(did_collide)
Update(hit, did_collide) ==
    hit \cup {did_collide[k] : k \in 1..Len(did_collide)}

\* for ball_ind in hit_balls: the order in which a set of small integers is
\* iterated, which is ascending
RECURSIVE Iteration(_)
Iteration(hit_balls) ==
    IF hit_balls = {} THEN <<>>
    ELSE <<CHOOSE i \in hit_balls : \A j \in hit_balls : i <= j>>
         \o Iteration(hit_balls \ {CHOOSE i \in hit_balls : \A j \in hit_balls : i <= j})

\* The body of the two nested for loops, for a loop state
\* st = [balls, collisions, collided, resolved, raised]; resolved lists
\* what the calls of Collide that resolved a collision returned; raised is
\* set when the call of Collide ended in an exception, which ends the tick.
OrbitLoopBody(st, b, b2) ==
    IF ~WillCollide(st.balls[b], st.balls[b2]) THEN st
    ELSE IF ElasticRaises(st.balls[b].m, st.balls[b2].m)
    THEN [st EXCEPT !.raised = TRUE]
    ELSE [balls |-> Collide(st.balls, b, b2),
          collisions |-> st.collisions + 1,
          collided |-> Update(st.collided, DidCollide(st.balls[b], st.balls[b2])),
          resolved |-> Append(st.resolved, DidCollide(st.balls[b], st.balls[b2])),
          raised |-> FALSE]

PendLoopBody(st, b, b2) ==
    IF ~PendWillCollide(st.balls[b], st.balls[b2]) THEN st
    ELSE IF ElasticRaises(st.balls[b].mass, st.balls[b2].mass)
    THEN [st EXCEPT !.raised = TRUE]
    ELSE [balls |-> PendCollide(st.balls, b, b2),
          collisions |-> st.collisions + 1,
          collided |-> st.collided,
          resolved |-> Append(st.resolved, TRUE),
          raised |-> FALSE]

LoopBody(md, st, b, b2) ==
    IF st.raised THEN st
    ELSE IF md = "orbit" THEN OrbitLoopBody(st, b, b2)
    ELSE PendLoopBody(st, b, b2)

\* One pass of the nested for loops, from the pair (b, b2) on.
RECURSIVE PassFrom(_, _, _, _)
PassFrom(md, st, b, b2) ==
    IF b >= Len(st.balls) THEN st
    ELSE IF b2 < Len(st.balls) THEN PassFrom(md, LoopBody(md, st, b, b2), b, b2 + 1)
    ELSE PassFrom(md, LoopBody(md, st, b, b2), b + 1, b + 2)

\* The while loop: while count < 5, one pass, count += 1, break after a
\* pass without collisions.  done lists the collisions of each pass run.
\* if count > 4: print 'Collision Failure' ('Collision failure' in pend.py)
Diagnostic(md, count) ==
    IF count > 4
    THEN (IF md = "orbit" THEN <<"Collision Failure">>
          ELSE <<"Collision failure">>)
    ELSE <<>>

\* What the while loop leaves once it is over, or once an exception has
\* ended it (nothing is printed then)
Resolved(md, st, done) ==
    [balls |-> st.balls, collided |-> st.collided, passes |-> done,
     printed |-> IF st.raised THEN <<>> ELSE Diagnostic(md, Len(done)),
     resolved |-> st.resolved, raised |-> st.raised]

\* The while loop without its break.
RECURSIVE ResolveNoBreak(_, _, _)
ResolveNoBreak(md, st, done) ==
    IF Len(done) >= MaxPasses THEN Resolved(md, st, done)
    ELSE ResolveNoBreak(md, PassFrom(md, [st EXCEPT !.collisions = 0], 1, 2),
                        Append(done, PassFrom(md, [st EXCEPT !.collisions = 0],
                                              1, 2).collisions))

RECURSIVE ResolveFrom(_, _, _)
ResolveNext(md, st, done) == ResolveFrom(md, st, Append(done, st.collisions))
ResolveFrom(md, st, done) ==
    IF \/ st.raised
       \/ Len(done) >= MaxPasses
       \/ (done # <<>> /\ done[Len(done)] = 0)
    THEN Resolved(md, st, done)
    ELSE ResolveNext(md, PassFrom(md, [st EXCEPT !.collisions = 0], 1, 2), done)

\* Orbits.UpdatePositions
UpdatePositions(balls) ==
    ResolveFrom("orbit",
                [balls |-> [i \in 1..Len(balls) |-> UpdatePosition(balls[i])],
                 collisions |-> 0, collided |-> {}, resolved |-> <<>>,
                 raised |-> FALSE], <<>>)

\* Pend.Step divides by self.mass: ZeroDivisionError for a mass of 0.
StepRaises(pends) == \E j \in 1..Len(pends) : pends[j].mass[1] = 0

\* for p in self.pends: p.Step(), as far as it gets: the pendulums before
\* the first one of mass 0 have taken their step.
Stepped(pends) ==
    [i \in 1..Len(pends) |->
        IF \E j \in 1..i : pends[j].mass[1] = 0 THEN pends[i]
        ELSE Step(pends[i])]

\* One turn of the while True loop of Pendulums.RunPendulums
RunPendulumsOnce(pends) ==
    ResolveFrom("pend",
                [balls |-> Stepped(pends), collisions |-> 0, collided |-> {},
                 resolved |-> <<>>, raised |-> StepRaises(pends)], <<>>)

(***************************************************************************)
(* Rounds.  Baller.CreateBalls draws sizes and velocities at random, puts  *)
(* ball i at starts[i], sorts the balls by size, largest first, and        *)
(* numbers them.  starts[i] = 0.5 * (i + 1) rad is 32 * (i + 1) units.     *)
(***************************************************************************)
StartStep == 32
starts(i) == R(StartStep * (i + 1))

\* The positions 1..Len(sizes) ordered by size, largest first
\* (balls.sort(reverse=True)); the drawn sizes are distinct.
SortedBySize(sizes) ==
    CHOOSE p \in [1..Len(sizes) -> 1..Len(sizes)] :
        /\ \A i, j \in 1..Len(sizes) : i # j => p[i] # p[j]
        /\ \A i \in 1..(Len(sizes) - 1) : sizes[p[i]] > sizes[p[i + 1]]

\* Baller.CreateBalls for the drawn sizes and velocities (both listed in
\* the order the balls are made).
CreateBalls(sizes, vs) ==
    LET p == SortedBySize(sizes)
    IN  [k \in 1..Len(sizes) |->
            [m |-> R(sizes[p[k]]), angle |-> starts(p[k] - 1),
             v |-> vs[p[k]], ball_ind |-> k - 1]]

\* A round in progress: balls numbered in list order.
Balls(ms, angles, vs) ==
    [k \in 1..Len(ms) |->
        [m |-> R(ms[k]), angle |-> angles[k], v |-> vs[k], ball_ind |-> k - 1]]

\* pend.DegToRad, in units of pi/200
DegToRad(deg) == RDiv(RMul(pi2, deg), <<360, 1>>)

\* Pend.__init__ as Pendulums.__init__ calls it
Pend(mass, length, angle, delta_t) ==
    [mass |-> mass, length |-> length, angle |-> DegToRad(angle),
     speed |-> Zero, del_t |-> delta_t]

\* Pendulums.__init__: one Pend per (mass, angle) of the specification.
Pendulums(pends, length, delta_t) ==
    [k \in 1..Len(pends) |-> Pend(pends[k][1], length, pends[k][2], delta_t)]

(***************************************************************************)
(* The simulators as a state machine.                                      *)
(***************************************************************************)
MaxTicks == 40

\* Sizes and velocities CreateBalls may draw for a round of three balls:
\* sizes within size_range = [20, 100], velocities within v_range =
\* [-0.03, 0.03] rad (1 unit is 0.0157 rad).
SizeDraws == {<<100, 60, 20>>, <<20, 100, 60>>, <<60, 20, 100>>, <<50, 80, 20>>}
VelocityDraws == [1..3 -> {R(-1), R(0), R(1)}]

\* Rounds in progress: bodies close to each other, next to the 0 / 2*pi
\* seam, and four balls packed within one step of each other.
RoundsInProgress ==
    { Balls(<<100, 60, 20>>, <<R(398), R(2), R(200)>>, <<R(1), R(-1), R(0)>>),
      Balls(<<100, 60, 20>>, <<R(2), R(397), R(200)>>, <<R(-1), <<-1, 2>>, R(1)>>),
      Balls(<<100, 60, 20>>, <<R(1), R(399), R(398)>>, <<R(-1), R(0), R(1)>>),
      Balls(<<100, 60, 20>>, <<R(397), R(20), R(200)>>, <<R(2), R(-1), R(0)>>),
      Balls(<<80, 20, 20, 20>>, <<<<31, 2>>, <<21, 2>>, R(15), <<19, 2>>>>,
            <<R(-2), R(0), R(-2), <<1, 2>>>>) }

\* Command lines of pend.py, as lists of (mass, angle in degrees): main's
\* default, pendulums released on either side of the rest position, two
\* given the same angle, and one given an angle beyond a full turn.
PendSpecs ==
    { << <<<<1, 10>>, R(0)>>, <<<<1, 10>>, <<27001, 100>>>>, <<<<1, 10>>, R(180)>> >>,
      << <<<<1, 10>>, R(89)>>, <<<<1, 5>>, R(91)>> >>,
      << <<<<1, 10>>, R(80)>>, <<<<3, 10>>, R(100)>>, <<<<1, 5>>, R(271)>> >>,
      << <<<<1, 10>>, R(45)>>, <<<<3, 10>>, R(45)>> >>,
      << <<<<1, 10>>, R(450)>>, <<<<1, 5>>, R(30)>> >> }

PendLength == <<2, 5>>
PendDeltaT == <<1, 10>>

KernIdle == kin = <<>> /\ kout = <<>>

InitSim ==
    /\ \/ /\ mode = "orbit"
          /\ \/ \E sizes \in SizeDraws, vs \in VelocityDraws :
                    bodies = CreateBalls(sizes, vs)
             \/ bodies \in RoundsInProgress
       \/ /\ mode = "pend"
          /\ \E ps \in PendSpecs : bodies = Pendulums(ps, PendLength, PendDeltaT)
    /\ ticks = 0
    /\ passes = <<>>
    /\ collided = {}
    /\ pinged = {}
    /\ printed = <<>>
    /\ resolved = <<>> /\ ping_calls = <<>>
    /\ KernIdle
    /\ TuneIdle
    /\ ProcIdle

\* Orbits.Increment: one tick of the orbit, then music.Ping(ball_ind) for
\* every ball_ind of the returned set.
Returned(r) ==
    /\ bodies' = r.balls
    /\ passes' = r.passes
    /\ collided' = r.collided
    /\ printed' = r.printed
    /\ resolved' = r.resolved

Increment ==
    /\ mode = "orbit"
    /\ ticks < MaxTicks
    /\ Returned(UpdatePositions(bodies))
    /\ pinged' = collided'
    /\ ping_calls' = Iteration(collided')
    /\ ticks' = ticks + 1
    /\ UNCHANGED <<mode, kernVars, tuneVars, procVars>>

\* The traceback of an exception that ends the thread
Traceback(error) == [text |-> "Traceback (most recent call last): ...", error |-> error]

\* One turn of the loop of Pendulums.RunPendulums.  An exception ends the
\* thread that runs the loop; its traceback goes to sys.stderr.
RunPendulums ==
    /\ mode = "pend"
    /\ ticks < MaxTicks
    /\ Returned(RunPendulumsOnce(bodies))
    /\ ticks' = ticks + 1
    /\ mode' = (IF RunPendulumsOnce(bodies).raised THEN "dead" ELSE mode)
    /\ stderr' = (IF RunPendulumsOnce(bodies).raised
                  THEN Append(stderr, Traceback("ZeroDivisionError"))
                  ELSE stderr)
    /\ UNCHANGED <<pinged, ping_calls, kernVars, tuneVars, args, main_pends, threadVars,
                   timers>>

NextSim == Increment \/ RunPendulums

SpecSim == InitSim /\ [][NextSim]_vars

(***************************************************************************)
(* Properties of the simulators.                                           *)
(***************************************************************************)
\* C3 as claimed: after any number of ticks every body's angle lies
\* within [0, 2*pi), whatever the sign of its velocity.
C3_AnglesCanonical ==
    ticks > 0 =>
        \A i \in 1..Len(bodies) :
            RLe(Zero, bodies[i].angle) /\ RLt(bodies[i].angle, pi2)

\* C3 as amended: after one or more ticks every body's angle lies within
\* the open interval (-2*pi, 2*pi): fmod keeps the sign of its first
\* argument, so a body that moves backwards through 0 has a negative angle.
C3_AnglesWithinATurn ==
    ticks > 0 =>
        \A i \in 1..Len(bodies) :
            RLt(<<-4 * HalfPiUnits, 1>>, bodies[i].angle) /\ RLt(bodies[i].angle, pi2)

\* A ball of the orbit has moved backwards through 0: its angle is
\* negative after a tick (every round starts with angles above 0).
C3_Witness ==
    /\ mode = "orbit" /\ ticks > 0
    /\ \E i \in 1..Len(bodies) : bodies[i].angle[1] < 0 /\ bodies[i].v[1] < 0

RECURSIVE TotalMomentum(_, _)
TotalMomentum(balls, n) ==
    IF n = 0 THEN Zero
    ELSE RAdd(TotalMomentum(balls, n - 1), RMul(balls[n].m, balls[n].v))

\* twice the total kinetic energy
RECURSIVE TotalEnergy2(_, _)
TotalEnergy2(balls, n) ==
    IF n = 0 THEN Zero
    ELSE RAdd(TotalEnergy2(balls, n - 1),
              RMul(balls[n].m, RMul(balls[n].v, balls[n].v)))

\* C4: in the orbit simulator a tick (Orbits.UpdatePositions) leaves the
\* total momentum and the total kinetic energy of the balls unchanged,
\* however many collisions it resolves, also when it runs all five passes.
C4_TickConserves ==
    [][mode = "orbit" =>
          /\ TotalMomentum(bodies', Len(bodies')) = TotalMomentum(bodies, Len(bodies))
          /\ TotalEnergy2(bodies', Len(bodies')) = TotalEnergy2(bodies, Len(bodies))]_vars

\* A tick of the orbit has run all five passes, resolved collisions in
\* each of the first four, and three or more balls took part.
C4_Witness ==
    /\ mode = "orbit"
    /\ Len(passes) = MaxPasses
    /\ \A k \in 1..4 : passes[k] > 0
    /\ Cardinality(collided) >= 3

\* C11: the loop of a tick runs at least 1 and at most 5 passes; every pass
\* but the last resolved a collision, and a loop of fewer than 5 passes
\* ended with a pass that resolved none.
C11_PassesBounded ==
    ticks > 0 =>
        /\ 1 <= Len(passes) /\ Len(passes) <= 5
        /\ \A k \in 1..(Len(passes) - 1) : passes[k] > 0
        /\ Len(passes) < 5 => passes[Len(passes)] = 0

\* A tick has ended after three passes, the third without a collision.
C11_Witness ==
    /\ ticks > 0 /\ Len(passes) = 3
    /\ passes[1] > 0 /\ passes[2] > 0 /\ passes[3] = 0

\* C12 as claimed: a tick prints the diagnostic exactly when its fifth pass
\* still resolved a collision; a tick whose last pass resolved none prints
\* nothing.
C12_DiagnosticIffPersisting ==
    ticks > 0 =>
        /\ printed # <<>> <=> (Len(passes) = 5 /\ passes[5] > 0)
        /\ passes[Len(passes)] = 0 => printed = <<>>

\* A tick of the orbit has printed the diagnostic although its fifth pass
\* resolved no collision.
C12_Witness ==
    /\ mode = "orbit" /\ ticks > 0
    /\ Len(passes) = 5 /\ passes[4] > 0 /\ passes[5] = 0
    /\ printed = <<"Collision Failure">>

\* What the code does: the diagnostic is printed exactly when the fifth
\* pass was run, whatever it resolved.
C12_DiagnosticIffFivePasses ==
    ticks > 0 => (printed # <<>> <=> Len(passes) = 5)

\* The ball indices that took part in a resolved collision of the last tick
TookPart == UNION { {resolved[k][1], resolved[k][2]} : k \in 1..Len(resolved) }

RECURSIVE SumOf(_)
SumOf(counts) ==
    IF counts = <<>> THEN 0 ELSE counts[1] + SumOf(Tail(counts))

\* C25: the set Orbits.UpdatePositions returns holds exactly the ball
\* indices that took part in a resolved collision of some pass of the tick,
\* and Orbits.Increment calls music.Ping exactly once for each index of
\* that set and for no other.
C25_PingsAreTheCollided ==
    (mode = "orbit" /\ ticks > 0) =>
        /\ Len(resolved) = SumOf(passes)
        /\ collided = TookPart
        /\ \A i \in collided :
              Cardinality({k \in 1..Len(ping_calls) : ping_calls[k] = i}) = 1
        /\ \A k \in 1..Len(ping_calls) : ping_calls[k] \in collided
        /\ pinged = collided

\* A tick resolved two collisions or more, its first two with one ball in
\* both (three balls took part), and that ball was pinged once, as were the
\* two others.
C25_Witness ==
    /\ mode = "orbit" /\ ticks > 0
    /\ Len(resolved) >= 2
    /\ resolved[1][2] = resolved[2][1]
    /\ Cardinality(collided) = 3
    /\ Len(ping_calls) = 3

\* A tick resolved a collision of two balls and left a third alone: two
\* calls were made.
C25_WitnessPair ==
    /\ mode = "orbit" /\ ticks > 0
    /\ Len(bodies) = 3
    /\ Cardinality(collided) = 2
    /\ Len(ping_calls) = 2

(***************************************************************************)
(* The collision kernel applied to drawn inputs: two bodies, each with a   *)
(* mass, an angle within (-2*pi, 2*pi), a velocity and (for Pend) a        *)
(* length.                                                                 *)
(***************************************************************************)
KernelMasses == {<<20, 1>>, <<100, 1>>}
KernelAngles == {<<-399, 1>>, <<-250, 1>>, <<-100, 1>>, <<-1, 1>>, <<0, 1>>,
                 <<1, 1>>, <<100, 1>>, <<200, 1>>, <<201, 1>>, <<399, 1>>}
KernelVelocities == {<<-3, 1>>, <<-1, 1>>, <<0, 1>>, <<2, 1>>, <<99, 1>>}
KernelLengths == {<<2, 5>>, <<1, 5>>}
KernelBodies ==
    [m : KernelMasses, angle : KernelAngles, v : KernelVelocities,
     length : KernelLengths]

\* The Ball and the Pend with the drawn attributes.
AsBall(x) == [m |-> x.m, angle |-> x.angle, v |-> x.v, ball_ind |-> 0]
AsPend(x) == [mass |-> x.m, length |-> x.length, angle |-> x.angle,
              speed |-> x.v, del_t |-> PendDeltaT]

SimIdle ==
    /\ mode = "none"
    /\ bodies = <<>>
    /\ ticks = 0
    /\ passes = <<>>
    /\ collided = {}
    /\ pinged = {}
    /\ printed = <<>>
    /\ resolved = <<>> /\ ping_calls = <<>>

InitKernel ==
    /\ kin \in KernelBodies \X KernelBodies
    /\ kout = <<>>
    /\ SimIdle
    /\ TuneIdle
    /\ ProcIdle

\* Elastic(m1, m2, v1, v2) for the two bodies
ApplyElastic ==
    /\ kout = <<>>
    /\ kout' = [op |-> "Elastic",
                vp |-> Elastic(kin[1].m, kin[2].m, kin[1].v, kin[2].v)]
    /\ UNCHANGED <<kin, simVars, tuneVars, procVars>>

\* A.WillCollide(B) and B.WillCollide(A), for balls and for pendulums
ApplyWillCollide ==
    /\ kout = <<>>
    /\ kout' = [op |-> "WillCollide",
                ab |-> WillCollide(AsBall(kin[1]), AsBall(kin[2])),
                ba |-> WillCollide(AsBall(kin[2]), AsBall(kin[1])),
                pab |-> PendWillCollide(AsPend(kin[1]), AsPend(kin[2])),
                pba |-> PendWillCollide(AsPend(kin[2]), AsPend(kin[1]))]
    /\ UNCHANGED <<kin, simVars, tuneVars, procVars>>

\* The two bodies as balls of an Orbits list
BallPair == <<AsBall(kin[1]), AsBall(kin[2])>>

\* The two bodies as pendulums of a Pendulums list, which gives all of them
\* the same length
PendPair == <<AsPend(kin[1]), [AsPend(kin[2]) EXCEPT !.length = kin[1].length]>>

\* A.Collide(B), then A.WillCollide(B) again, for balls and for pendulums:
\* hit is what the WillCollide inside Collide returned
ApplyCollide ==
    /\ kout = <<>>
    /\ kout' = [op |-> "Collide",
                hit |-> WillCollide(BallPair[1], BallPair[2]),
                again |-> WillCollide(Collide(BallPair, 1, 2)[1],
                                      Collide(BallPair, 1, 2)[2]),
                phit |-> PendWillCollide(PendPair[1], PendPair[2]),
                pagain |-> PendWillCollide(PendCollide(PendPair, 1, 2)[1],
                                           PendCollide(PendPair, 1, 2)[2])]
    /\ UNCHANGED <<kin, simVars, tuneVars, procVars>>

NextKernel == ApplyElastic \/ ApplyWillCollide \/ ApplyCollide

SpecKernel == InitKernel /\ [][NextKernel]_vars

(***************************************************************************)
(* Properties of the collision kernel.                                     *)
(***************************************************************************)
Sq(x) == RMul(x, x)
Momentum2(m1, m2, v1, v2) == RAdd(RMul(m1, v1), RMul(m2, v2))
\* twice the kinetic energy
Energy2(m1, m2, v1, v2) == RAdd(RMul(m1, Sq(v1)), RMul(m2, Sq(v2)))

\* C1: for positive masses and any velocities, the pair Elastic returns has
\* the momentum m1*v1 + m2*v2 and the kinetic energy m1*v1^2 + m2*v2^2 of
\* the pair it was given (exact arithmetic).
C1_ElasticConserves ==
    (kout # <<>> /\ kout.op = "Elastic") =>
        /\ Momentum2(kin[1].m, kin[2].m, kout.vp[1], kout.vp[2])
             = Momentum2(kin[1].m, kin[2].m, kin[1].v, kin[2].v)
        /\ Energy2(kin[1].m, kin[2].m, kout.vp[1], kout.vp[2])
             = Energy2(kin[1].m, kin[2].m, kin[1].v, kin[2].v)

\* Elastic has been applied to unequal masses and changed both velocities.
C1_Witness ==
    /\ kout # <<>> /\ kout.op = "Elastic"
    /\ kin[1].m # kin[2].m
    /\ kout.vp[1] # kin[1].v /\ kout.vp[2] # kin[2].v
    /\ kout.vp[1][2] > 1

\* C2: WillCollide is symmetric, A.WillCollide(B) = B.WillCollide(A), for
\* balls and for pendulums, for any angles within (-2*pi, 2*pi) and any
\* velocities.
C2_WillCollideSymmetric ==
    (kout # <<>> /\ kout.op = "WillCollide") =>
        /\ kout.ab = kout.ba
        /\ kout.pab = kout.pba

\* WillCollide has answered True for a pair on both sides of the seam: the
\* first body just above 0, the second just below 2*pi (a negative angle).
C2_Witness ==
    /\ kout # <<>> /\ kout.op = "WillCollide"
    /\ kin[1].angle = <<1, 1>> /\ kin[2].angle = <<-1, 1>>
    /\ kout.ab /\ kout.pab

\* x modulo a turn, within [0, 2*pi)
ModPi2(x) == <<x[1] % (4 * HalfPiUnits * x[2]), x[2]>>

\* The signed shortest angular separation of the angle a from the angle b
\* on the circle, within [-pi, pi)
Separation(a, b) == RSub(ModPi2(RAdd(RSub(a, b), pi)), pi)

\* The separation is zero, or changes sign through zero, when it changes
\* by the relative velocity dv
MeetsWithin(d, dv) == RMul(d, RAdd(d, dv))[1] <= 0

\* The relative velocity per step is smaller in magnitude than pi/2
Slow(dv) == RLt(<<-HalfPiUnits, 1>>, dv) /\ RLt(dv, piby2)

\* C24: for two bodies with angles within (-2*pi, 2*pi) whose relative
\* velocity per step is smaller in magnitude than pi/2, WillCollide is true
\* exactly when their signed shortest angular separation on the circle is
\* zero or changes sign through zero in the step, for balls and for
\* pendulums, on either side of the 0 / 2*pi seam.
C24_WillCollideIsCrossing ==
    (kout # <<>> /\ kout.op = "WillCollide") =>
        /\ Slow(RSub(kin[1].v, kin[2].v)) =>
              (kout.ab <=> MeetsWithin(Separation(kin[1].angle, kin[2].angle),
                                       RSub(kin[1].v, kin[2].v)))
        /\ Slow(RSub(AngularStep(AsPend(kin[1])), AngularStep(AsPend(kin[2])))) =>
              (kout.pab <=> MeetsWithin(Separation(kin[1].angle, kin[2].angle),
                                        RSub(AngularStep(AsPend(kin[1])),
                                             AngularStep(AsPend(kin[2])))))

\* WillCollide has answered True for a ball just below 2*pi that overtakes
\* one just above 0 (kept as a negative angle), and so across the seam.
C24_Witness ==
    /\ kout # <<>> /\ kout.op = "WillCollide"
    /\ kin[1].angle = <<399, 1>> /\ kin[2].angle = <<-399, 1>>
    /\ kin[1].v = <<2, 1>> /\ kin[2].v = <<-1, 1>>
    /\ kout.ab

\* WillCollide has answered True for two balls a quarter turn less one
\* unit apart that close up exactly in the step.
C24_WitnessFast ==
    /\ kout # <<>> /\ kout.op = "WillCollide"
    /\ Separation(kin[1].angle, kin[2].angle) = <<-99, 1>>
    /\ RSub(kin[1].v, kin[2].v) = <<99, 1>>
    /\ kout.ab


(***************************************************************************)
(* Note tables and the chord parser (tune.Notes).  A Python string is a    *)
(* sequence of one-character strings.  A note of the table is the number   *)
(* n of its semitone relative to A4: its frequency is a4 * 2^(n/12), which *)
(* is a4 = 440.0 exactly when n = 0.  A Python list index i is the         *)
(* position i + 1 of the sequence.                                         *)
(***************************************************************************)
c_sharp_names ==
    << <<"C">>, <<"C", "#">>, <<"D">>, <<"D", "#">>, <<"E">>, <<"F">>,
       <<"F", "#">>, <<"G">>, <<"G", "#">>, <<"A">>, <<"A", "#">>, <<"B">> >>

c_flat_names ==
    << <<"C">>, <<"D", "b">>, <<"D">>, <<"E", "b">>, <<"E">>, <<"F">>,
       <<"G", "b">>, <<"G">>, <<"A", "b">>, <<"A">>, <<"B", "b">>, <<"B">> >>

Digits == <<"0", "1", "2", "3", "4", "5", "6", "7", "8", "9">>

\* c.isdigit() and int(c) for one character
IsDigit(c) == \E d \in 1..Len(Digits) : Digits[d] = c
DigitValue(c) == (CHOOSE d \in 1..Len(Digits) : Digits[d] = c) - 1

\* x in list, and list.index(x)
Contains(list, x) == \E k \in 1..Len(list) : list[k] = x
IndexOf(list, x) ==
    (CHOOSE k \in 1..Len(list) :
        list[k] = x /\ \A j \in 1..(k - 1) : list[j] # x) - 1

\* oct and note of CreateSemitoneFrequencies
TonicOctave(tonic) ==
    IF IsDigit(tonic[Len(tonic)]) THEN DigitValue(tonic[Len(tonic)]) ELSE 4
TonicNote(tonic) ==
    IF IsDigit(tonic[Len(tonic)]) THEN SubSeq(tonic, 1, Len(tonic) - 1)
    ELSE tonic

\* ind of CreateSemitoneFrequencies; -1 stands for the unrecognized note
NoteIndex(note) ==
    IF Contains(c_sharp_names, note) THEN IndexOf(c_sharp_names, note)
    ELSE IF Contains(c_flat_names, note) THEN IndexOf(c_flat_names, note)
    ELSE -1

\* The name index of semitone n, read from the table that starts at A.
NameIndexFromA(n, a_ind) == n % 12

\* ind = (n + a_ind) % 12
NameIndex(n, a_ind) == (n + a_ind) % 12

\* low_ind = i_diff + (12 * o_diff)
LowInd(ind, oct, a_ind) == (ind - a_ind) + (12 * (oct - 4))

\* The loop over range(low_ind, high_ind)
TableFrom(low_ind, n_notes, a_ind) ==
    [none |-> FALSE,
     notes |-> [k \in 1..n_notes |-> low_ind + (k - 1)],
     names |-> [k \in 1..n_notes |->
                   c_sharp_names[NameIndex(low_ind + (k - 1), a_ind) + 1]]]

\* What a method returns when it returns None.
None == [none |-> TRUE]

\* Notes.CreateSemitoneFrequencies(tonic, n_notes); None for a tonic whose
\* note is in neither name list.
CreateSemitoneFrequencies(tonic, n_notes) ==
    IF NoteIndex(TonicNote(tonic)) < 0 THEN None
    ELSE TableFrom(LowInd(NoteIndex(TonicNote(tonic)), TonicOctave(tonic),
                          IndexOf(c_sharp_names, <<"A">>)),
                   n_notes, IndexOf(c_sharp_names, <<"A">>))

\* Notes.__init__(tonic, n_semis)
NotesObject(tonic, n_semis, table) ==
    [tonic |-> tonic, n_semis |-> n_semis,
     notes |-> table.notes, names |-> table.names]

Notes(tonic, n_semis) ==
    NotesObject(tonic, n_semis, CreateSemitoneFrequencies(tonic, n_semis))

progression_steps ==
    (<<"I">> :> 0) @@ (<<"I", "I">> :> 2) @@ (<<"I", "I", "I">> :> 4) @@
    (<<"I", "V">> :> 5) @@ (<<"V">> :> 7) @@ (<<"V", "I">> :> 9) @@
    (<<"V", "I", "I">> :> 11)

\* The while loop: the number of leading characters of sp in 'VvIi'
RECURSIVE DegreeEnd(_, _)
DegreeEnd(sp, i) ==
    IF i < Len(sp) /\ sp[i + 1] \in {"V", "v", "I", "i"}
    THEN DegreeEnd(sp, i + 1)
    ELSE i

\* sint.upper() and sint.islower() for a string of characters of 'VvIi'
Upper(sint) ==
    [k \in 1..Len(sint) |->
        IF sint[k] = "v" THEN "V" ELSE IF sint[k] = "i" THEN "I" ELSE sint[k]]
IsLower(sint) ==
    Len(sint) > 0 /\ \A k \in 1..Len(sint) : sint[k] \in {"v", "i"}

\* c in sp
HasChar(sp, c) == \E k \in 1..Len(sp) : sp[k] = c

\* int_2 without the narrowing of a diminished major chord.
Int2Undiminished(is_minor, is_dim) == IF is_minor THEN 3 ELSE 4

\* int_2 and int_3
Int2(is_minor, is_dim) ==
    IF is_minor THEN 3 ELSE IF is_dim THEN 4 - 1 ELSE 4
Int3(is_minor, is_dim) ==
    IF is_minor THEN (IF is_dim THEN 4 - 1 ELSE 4) ELSE 3

\* int_7; 0 when no seventh is asked for
Int7(sint, is_dim, has_7) ==
    IF ~has_7 THEN 0
    ELSE (IF sint \in {<<"I">>, <<"I", "V">>, <<"v", "i", "i">>} THEN 11 ELSE 10)
         - (IF is_dim THEN 1 ELSE 0)

\* chord, before the wrap
ChordOf(interval, int_2, int_3, int_7) ==
    <<interval, interval + int_2, interval + int_2 + int_3>>
    \o (IF int_7 # 0 THEN <<interval + int_7>> ELSE <<>>)

\* if n >= len(self.notes): n = n % 12
Wrapped(n, len) == IF n >= len THEN n % 12 ELSE n

\* ninds, sorted
Ninds(chord, len) ==
    [none |-> FALSE,
     inds |-> SortSeq([k \in 1..Len(chord) |-> Wrapped(chord[k], len)],
                      LAMBDA a, b : a < b)]

\* ChordSpecToIndices once flatted, sp and sint are known
IndicesOf(len, flatted, sp, sint) ==
    IF Upper(sint) \notin DOMAIN progression_steps THEN None
    ELSE Ninds(ChordOf(progression_steps[Upper(sint)]
                           - (IF flatted THEN 1 ELSE 0),
                       Int2(IsLower(sint), HasChar(sp, "o")),
                       Int3(IsLower(sint), HasChar(sp, "o")),
                       Int7(sint, HasChar(sp, "o"), HasChar(sp, "7"))),
               len)

Unflatted(spec) == IF spec[1] = "b" THEN Tail(spec) ELSE spec

\* Notes.ChordSpecToIndices(spec), for a table of len notes
ChordSpecToIndices(len, spec) ==
    IndicesOf(len, spec[1] = "b", Unflatted(spec),
              SubSeq(Unflatted(spec), 1, DegreeEnd(Unflatted(spec), 0)))

\* list[i] as Python reads it: a negative i counts from the end, and an i
\* beyond either end raises IndexError.
HasItem(list, i) == (i >= 0 /\ i < Len(list)) \/ (i < 0 /\ -i <= Len(list))
ListItem(list, i) == IF i >= 0 THEN list[i + 1] ELSE list[Len(list) + i + 1]

\* [self.notes[i] for i in inds]
ItemsAt(list, inds) ==
    IF \E k \in 1..Len(inds) : ~HasItem(list, inds[k])
    THEN [none |-> FALSE, raised |-> TRUE, notes |-> <<>>]
    ELSE [none |-> FALSE, raised |-> FALSE,
          notes |-> [k \in 1..Len(inds) |-> ListItem(list, inds[k])]]

\* Notes.ChordSpecToNotes(chord_spec), given what ChordSpecToIndices returned
NotesAt(notes, r) ==
    IF r.none \/ r.inds = <<>> THEN None ELSE ItemsAt(notes, r.inds)

ChordSpecToNotes(notes, chord_spec) ==
    NotesAt(notes, ChordSpecToIndices(Len(notes), chord_spec))

\* The frequency of a table note: pow(twelth2, k) for k = 0..11, rounded to
\* the ratios of just intonation, and exact for whole octaves
TwelfthPowers ==
    << <<1, 1>>, <<16, 15>>, <<9, 8>>, <<6, 5>>, <<5, 4>>, <<4, 3>>,
       <<45, 32>>, <<3, 2>>, <<8, 5>>, <<5, 3>>, <<9, 5>>, <<15, 8>> >>

\* x * pow(2, k)
RECURSIVE Octaves(_, _)
Octaves(x, k) ==
    IF k = 0 THEN x
    ELSE IF k > 0 THEN Octaves(RMul(x, <<2, 1>>), k - 1)
    ELSE Octaves(RMul(x, <<1, 2>>), k + 1)

\* self.a4 * pow(twelth2, n)
Hertz(n) == Octaves(RMul(<<440, 1>>, TwelfthPowers[(n % 12) + 1]), n \div 12)

\* A list of table notes as frequencies
HertzAll(ns) == [k \in 1..Len(ns) |-> Hertz(ns[k])]

(***************************************************************************)
(* The note table as a state machine: a Notes object is constructed for a  *)
(* tonic and a table size, and chord specifiers are resolved against it.   *)
(***************************************************************************)
\* Tonics, each with the pitch class (its place in C, C#, ..., B) and the
\* octave it names: with and without an octave digit, sharp and flat names.
TonicDraws ==
    { [text |-> <<"C">>, p |-> 0, o |-> 4],
      [text |-> <<"A", "4">>, p |-> 9, o |-> 4],
      [text |-> <<"D", "b", "3">>, p |-> 1, o |-> 3],
      [text |-> <<"F", "#", "5">>, p |-> 6, o |-> 5] }

\* Table sizes: one octave, one more than an octave, and the 24 of
\* Music.n_semis.
SizeOfTableDraws == {12, 13, 24}

Roman ==
    << <<"I">>, <<"I", "I">>, <<"I", "I", "I">>, <<"I", "V">>, <<"V">>,
       <<"V", "I">>, <<"V", "I", "I">> >>

\* s.lower() for a string of characters of 'VI'
Lower(s) == [k \in 1..Len(s) |-> IF s[k] = "V" THEN "v" ELSE "i"]

\* The specifier written with the given parts.
SpecText(flat, degree, minor, dim, seventh) ==
    (IF flat THEN <<"b">> ELSE <<>>)
    \o (IF minor THEN Lower(Roman[degree]) ELSE Roman[degree])
    \o (IF dim THEN <<"o">> ELSE <<>>)
    \o (IF seventh THEN <<"7">> ELSE <<>>)

WellFormedSpecs ==
    { SpecText(fl, d, mi, di, se) :
        fl \in BOOLEAN, d \in 1..7, mi \in BOOLEAN, di \in BOOLEAN,
        se \in BOOLEAN }

\* Specifiers with no degree of the table, and one in mixed case.
OtherSpecs == { <<"X">>, <<"I", "I", "I", "I">>, <<"i", "V">>, <<"7">> }

ChordSpecs == WellFormedSpecs \cup OtherSpecs

NoCall == <<>>

\* Notes(tonic, n_semis), as Music.SetupProgression constructs it
InitNotes ==
    /\ \E t \in TonicDraws, n \in SizeOfTableDraws :
          note_gen = Notes(t.text, n)
    /\ call = NoCall
    /\ prev = NoCall
    /\ mode = "none" /\ bodies = <<>> /\ ticks = 0 /\ passes = <<>>
    /\ collided = {} /\ pinged = {} /\ printed = <<>>
    /\ resolved = <<>> /\ ping_calls = <<>>
    /\ kin = <<>> /\ kout = <<>>
    /\ ProcIdle
    /\ TonesIdle /\ BallerIdle

\* note_gen.ChordSpecToNotes(chord), which calls ChordSpecToIndices(chord)
CallChordSpecToNotes ==
    \E spec \in ChordSpecs :
        /\ call' = [spec |-> spec,
                    inds |-> ChordSpecToIndices(Len(note_gen.notes), spec),
                    ret |-> ChordSpecToNotes(note_gen.notes, spec)]
        /\ prev' = IF call # NoCall /\ call.spec = spec THEN call ELSE NoCall
        /\ UNCHANGED <<note_gen, simVars, kernVars, procVars, tonesVars, ballerVars>>

\* Music.SetupProgression: self.note_gen = Notes(self.tonic, self.n_semis)
ConstructNotes ==
    /\ call # NoCall
    /\ \E t \in TonicDraws, n \in SizeOfTableDraws :
          note_gen' = Notes(t.text, n)
    /\ call' = NoCall
    /\ prev' = NoCall
    /\ UNCHANGED <<simVars, kernVars, procVars, tonesVars, ballerVars>>

NextNotes == CallChordSpecToNotes \/ ConstructNotes

SpecNotes == InitNotes /\ [][NextNotes]_vars

(***************************************************************************)
(* Properties of the chord parser and the note table.                      *)
(***************************************************************************)
DegreeOffset == <<0, 2, 4, 5, 7, 9, 11>>

\* r, (t, f) and s of a specifier, from its parts
RootOf(flat, degree) == DegreeOffset[degree] - (IF flat THEN 1 ELSE 0)
ThirdOf(minor, dim) == IF minor THEN 3 ELSE (IF dim THEN 3 ELSE 4)
FifthOf(minor, dim) == IF minor THEN (IF dim THEN 3 ELSE 4) ELSE 3
SeventhOf(degree, minor, dim) ==
    (IF (degree = 1 /\ ~minor) \/ (degree = 4 /\ ~minor) \/ (degree = 7 /\ minor)
     THEN 11 ELSE 10) - (IF dim THEN 1 ELSE 0)

ExpectedIndices(r, t, f, s, seventh) ==
    <<r, r + t, r + t + f>> \o (IF seventh THEN <<r + s>> ELSE <<>>)

\* C8: against a 24-semitone table, a specifier made of an optional b, a
\* degree I..VII in upper or lower case, an optional o and an optional 7
\* resolves to the ascending list r, r+t, r+t+f (and r+s with a seventh);
\* two calls with the same specifier return the same list, and a call
\* leaves the Notes object as it was.
C8_ChordFormula ==
    /\ (call # NoCall /\ Len(note_gen.notes) = 24) =>
          \A fl \in BOOLEAN, d \in 1..7, mi \in BOOLEAN, di \in BOOLEAN,
             se \in BOOLEAN :
              call.spec = SpecText(fl, d, mi, di, se) =>
                  /\ ~call.inds.none
                  /\ call.inds.inds =
                        ExpectedIndices(RootOf(fl, d), ThirdOf(mi, di),
                                        FifthOf(mi, di), SeventhOf(d, mi, di),
                                        se)
    /\ (call # NoCall /\ prev # NoCall /\ call.spec = prev.spec) =>
          call.inds = prev.inds
    /\ (call # NoCall) =>
          note_gen = Notes(note_gen.tonic, note_gen.n_semis)

\* Tonic C, 24 semitones: vi has been resolved to 9, 12, 16, twice.
C8_Witness ==
    /\ call # NoCall /\ prev # NoCall
    /\ note_gen.tonic = <<"C">> /\ note_gen.n_semis = 24
    /\ call.spec = <<"v", "i">> /\ call.inds.inds = <<9, 12, 16>>

\* C9: every index ChordSpecToIndices returns for a recognized specifier is
\* an index into the note table, 0 <= index < len(notes).
C9_IndicesInTable ==
    (call # NoCall /\ call.spec \in WellFormedSpecs) =>
        \A k \in 1..Len(call.inds.inds) :
            0 <= call.inds.inds[k] /\ call.inds.inds[k] < Len(note_gen.notes)

\* Tonic C, 24 semitones: bI has been resolved to -1, 3, 6, and its first
\* note was read from the last entry of the table.
C9_Witness ==
    /\ call # NoCall /\ call.spec = <<"b", "I">>
    /\ note_gen.tonic = <<"C">> /\ note_gen.n_semis = 24
    /\ call.inds.inds = <<-1, 3, 6>>
    /\ call.ret.notes[1] = note_gen.notes[24]

\* The only index outside the table is the -1 of a flatted I, which Python
\* reads as the last entry of the table.
C9_OnlyFlattedTonicOutside ==
    (call # NoCall /\ call.spec \in WellFormedSpecs) =>
        /\ \A k \in 1..Len(call.inds.inds) :
              -1 <= call.inds.inds[k] /\ call.inds.inds[k] < Len(note_gen.notes)
        /\ (\E k \in 1..Len(call.inds.inds) : call.inds.inds[k] < 0) =>
              /\ call.spec[1] = "b" /\ call.spec[2] \in {"I", "i"}
              /\ ~call.ret.none /\ ~call.ret.raised
              /\ call.ret.notes[1] = note_gen.notes[Len(note_gen.notes)]

\* C10: the table has n entries; entry k is the semitone
\* (p - 9) + 12 * (o - 4) + k and has the name of pitch class (p + k) mod 12;
\* for tonic A4 entry 0 is semitone 0 (a4 itself), named A.
C10_TableFormula ==
    /\ \A t \in TonicDraws :
          note_gen.tonic = t.text =>
              /\ Len(note_gen.notes) = note_gen.n_semis
              /\ Len(note_gen.names) = note_gen.n_semis
              /\ \A k \in 0..(note_gen.n_semis - 1) :
                    /\ note_gen.notes[k + 1] = (t.p - 9) + 12 * (t.o - 4) + k
                    /\ note_gen.names[k + 1] = c_sharp_names[((t.p + k) % 12) + 1]
    /\ note_gen.tonic = <<"A", "4">> =>
          /\ note_gen.notes[1] = 0 /\ note_gen.names[1] = <<"A">>
          /\ Hertz(note_gen.notes[1]) = <<440, 1>>

\* A table for a flat-named tonic below octave 4 has been built and read:
\* its chord I is the semitones -20, -16, -13.
C10_Witness ==
    /\ note_gen.tonic = <<"D", "b", "3">> /\ note_gen.n_semis = 13
    /\ note_gen.notes[1] = -20 /\ note_gen.names[13] = <<"C", "#">>
    /\ call # NoCall /\ call.spec = <<"I">>
    /\ ~call.ret.none /\ call.ret.notes = <<-20, -16, -13>>

(***************************************************************************)
(* The oscillator banks (tune.Tones).  Frequencies are rationals in Hz.    *)
(* Phases (args) and phase steps (incs) are measured in turns, so the      *)
(* code's pi2 is 1 and pi2 * freq / fs is freq / fs.  math.sin is replaced *)
(* by the triangle wave with the same zeros, extremes and sign, which is   *)
(* rational on rational phases; math.exp(-1/x) is replaced by x / (x + 1), *)
(* which like it lies strictly between 0 and 1 for x > 0.                  *)
(***************************************************************************)
One == <<1, 1>>

Min(a, b) == IF a < b THEN a ELSE b

\* math.fmod(x, pi2) for a phase in turns: the sign of x, magnitude below 1
FmodTurn(x) == Norm(x[1] - x[2] * RTrunc(x), x[2])

\* math.sin of a phase within [0, 1) turns
SinOfQuarters(q) ==
    IF RLe(q, One) THEN q
    ELSE IF RLe(q, <<3, 1>>) THEN RSub(<<2, 1>>, q)
    ELSE RSub(q, <<4, 1>>)

\* math.sin(arg), arg within (-1, 1) turns
Sin(arg) ==
    IF arg[1] < 0
    THEN RSub(Zero, SinOfQuarters(RMul(<<4, 1>>, <<-arg[1], arg[2]>>)))
    ELSE SinOfQuarters(RMul(<<4, 1>>, arg))

\* math.exp(-1.0 / x), x > 0
ExpOfMinusInverse(x) == RDiv(x, RAdd(x, One))

\* [value for i in range(n)]
Filled(n, value) == [k \in 1..n |-> value]

\* Tones.ResetPings(max_notes)
ResetPings(t, max_notes) ==
    [t EXCEPT !.ping_notes = Filled(max_notes, Zero),
              !.ping_args = Filled(max_notes, Zero),
              !.ping_incs = Filled(max_notes, Zero),
              !.ping_reset_amp = RDiv(<<32000, 1>>, <<max_notes, 1>>),
              !.ping_amps = Filled(max_notes, Zero),
              !.ping_decay = <<1999, 2000>>,
              !.ping_samples = RTrunc(t.fs),
              !.ping_inds = Filled(max_notes, RTrunc(t.fs)),
              !.n_pings = 0]

\* Tones.ResetChord(max_notes)
ResetChord(t, max_notes) ==
    [t EXCEPT !.notes = Filled(max_notes, Zero),
              !.args = Filled(max_notes, Zero),
              !.incs = Filled(max_notes, Zero),
              !.amps = Filled(max_notes, RDiv(<<6000, 1>>, <<max_notes, 1>>)),
              !.n_notes = 0]

\* The attributes Tones.__init__ assigns before its two resets
TonesAttributes(sample_rate) ==
    [fs |-> sample_rate,
     notes |-> <<>>, args |-> <<>>, incs |-> <<>>, amps |-> <<>>,
     n_notes |-> 0,
     ping_notes |-> <<>>, ping_args |-> <<>>, ping_incs |-> <<>>,
     ping_amps |-> <<>>, ping_decay |-> <<1999, 2000>>,
     ping_reset_amp |-> <<1000, 1>>, ping_samples |-> 0,
     ping_inds |-> <<>>, n_pings |-> 0,
     ping_is_on |-> TRUE, chord_is_on |-> TRUE, detune_is_on |-> TRUE]

\* Tones.__init__(sample_rate)
Tones(sample_rate) ==
    ResetPings(ResetChord(TonesAttributes(sample_rate), 4), 10)

ToggleDetune(t) == [t EXCEPT !.detune_is_on = ~t.detune_is_on]
TogglePing(t) == [t EXCEPT !.ping_is_on = ~t.ping_is_on]
ToggleChord(t) == [t EXCEPT !.chord_is_on = ~t.chord_is_on]

\* freq of SetupPings: draws[i] stands for 8.0 * (random.random() - 0.5)
PingFreq(t, ping_notes, draws, k) ==
    IF t.detune_is_on THEN RAdd(draws[k], ping_notes[k]) ELSE ping_notes[k]

\* SetupPings after the reset, if any
SetupPingsIn(t, ping_notes, time_const, dur, draws) ==
    [t EXCEPT !.ping_notes = ping_notes,
              !.ping_samples = RTrunc(RMul(dur, t.fs)),
              !.ping_decay = ExpOfMinusInverse(RMul(time_const, t.fs)),
              !.ping_incs = [k \in 1..Len(t.ping_incs) |->
                               IF k <= Len(ping_notes)
                               THEN RDiv(PingFreq(t, ping_notes, draws, k), t.fs)
                               ELSE t.ping_incs[k]],
              !.n_pings = Len(ping_notes)]

\* Tones.SetupPings(ping_notes, time_const, dur)
SetupPings(t, ping_notes, time_const, dur, draws) ==
    SetupPingsIn(IF Len(ping_notes) > t.n_pings
                 THEN ResetPings(t, Len(ping_notes)) ELSE t,
                 ping_notes, time_const, dur, draws)

\* Tones.Ping(ping_ind), new_ping_freq left at None; ping_ind within the bank
Ping(t, ping_ind) ==
    [t EXCEPT !.ping_amps[ping_ind + 1] = t.ping_reset_amp,
              !.ping_inds[ping_ind + 1] = 0,
              !.ping_args[ping_ind + 1] = Zero]

\* if new_ping_freq: (None and 0.0 are false)
Given(new_ping_freq) == ~new_ping_freq.none /\ new_ping_freq.freq # Zero

\* Tones.Ping(ping_ind, new_ping_freq): the increment of the slot is set
\* first when a frequency is given
PingWith(t, ping_ind, new_ping_freq) ==
    Ping(IF Given(new_ping_freq)
         THEN [t EXCEPT !.ping_incs[ping_ind + 1] = RDiv(new_ping_freq.freq, t.fs)]
         ELSE t,
         ping_ind)

\* ChangeChord after the reset, if any
ChangeChordIn(t, new_notes) ==
    [t EXCEPT !.notes = new_notes,
              !.n_notes = Len(new_notes),
              !.incs = [k \in 1..Len(t.incs) |->
                          IF k <= Len(new_notes) THEN RDiv(new_notes[k], t.fs)
                          ELSE t.incs[k]]]

\* Tones.ChangeChord(new_notes)
ChangeChord(t, new_notes) ==
    ChangeChordIn(IF Len(new_notes) > Len(t.notes)
                  THEN ResetChord(t, Len(new_notes)) ELSE t,
                  new_notes)

\* famp after k turns of a sample loop that divides by decay.
RECURSIVE AmpGrowing(_, _, _)
AmpGrowing(famp, decay, k) ==
    IF k = 0 THEN famp ELSE AmpGrowing(RDiv(famp, decay), decay, k - 1)

\* famp after k turns of the sample loop: famp *= decay
RECURSIVE AmpAfter(_, _, _)
AmpAfter(famp, decay, k) ==
    IF k = 0 THEN famp ELSE AmpAfter(RMul(famp, decay), decay, k - 1)

\* farg after k turns of a sample loop: farg = math.fmod(farg + finc, pi2)
RECURSIVE ArgAfter(_, _, _)
ArgAfter(farg, finc, k) ==
    IF k = 0 THEN farg
    ELSE ArgAfter(FmodTurn(RAdd(farg, finc)), finc, k - 1)

\* ngen of slot ping (a list index); 0 when the slot is skipped
Ngen(t, ping, n_samp) ==
    IF t.ping_inds[ping + 1] >= t.ping_samples THEN 0
    ELSE Min(n_samp, t.ping_samples - t.ping_inds[ping + 1])

\* What slot ping adds to output[i]
PingTerm(t, ping, i, n_samp) ==
    IF i < Ngen(t, ping, n_samp)
    THEN RMul(AmpAfter(t.ping_amps[ping + 1], t.ping_decay, i),
              Sin(ArgAfter(t.ping_args[ping + 1], t.ping_incs[ping + 1], i)))
    ELSE Zero

\* output[i] once the slots below ping have been run
RECURSIVE PingSum(_, _, _, _)
PingSum(t, ping, i, n_samp) ==
    IF ping = 0 THEN Zero
    ELSE RAdd(PingSum(t, ping - 1, i, n_samp),
              PingTerm(t, ping - 1, i, n_samp))

\* The list GeneratePingSignal returns
PingOutput(t, n_samp) ==
    [k \in 1..n_samp |->
        IF t.ping_is_on THEN PingSum(t, t.n_pings, k - 1, n_samp) ELSE Zero]

\* The bank GeneratePingSignal leaves behind
PingsAdvanced(t, n_samp) ==
    IF ~t.ping_is_on THEN t
    ELSE [t EXCEPT
            !.ping_amps = [k \in 1..Len(t.ping_amps) |->
                IF k <= t.n_pings
                THEN AmpAfter(t.ping_amps[k], t.ping_decay, Ngen(t, k - 1, n_samp))
                ELSE t.ping_amps[k]],
            !.ping_args = [k \in 1..Len(t.ping_args) |->
                IF k <= t.n_pings
                THEN ArgAfter(t.ping_args[k], t.ping_incs[k], Ngen(t, k - 1, n_samp))
                ELSE t.ping_args[k]],
            !.ping_inds = [k \in 1..Len(t.ping_inds) |->
                IF k <= t.n_pings THEN t.ping_inds[k] + Ngen(t, k - 1, n_samp)
                ELSE t.ping_inds[k]]]

\* Tones.GeneratePingSignal(n_samp): the output and the bank afterwards
GeneratePingSignal(t, n_samp) ==
    [output |-> PingOutput(t, n_samp), tones |-> PingsAdvanced(t, n_samp)]

\* What the chord notes below j add to sample i
RECURSIVE ChordSum(_, _, _)
ChordSum(t, j, i) ==
    IF j = 0 THEN Zero
    ELSE RAdd(ChordSum(t, j - 1, i),
              RMul(t.amps[j], Sin(ArgAfter(t.args[j], t.incs[j], i))))

\* sig[i] with the chord notes added whatever chord_is_on says.
SampleChordAlways(t, pings, i) ==
    RTrunc(RAdd(pings[i + 1], ChordSum(t, t.n_notes, i)))

\* sig[i] = int(sum)
Sample(t, pings, i) ==
    RTrunc(IF t.chord_is_on THEN RAdd(pings[i + 1], ChordSum(t, t.n_notes, i))
           ELSE pings[i + 1])

\* The chord bank GetSamples leaves behind
ChordAdvanced(t, n_samp) ==
    IF ~t.chord_is_on THEN t
    ELSE [t EXCEPT !.args = [k \in 1..Len(t.args) |->
                               IF k <= t.n_notes
                               THEN ArgAfter(t.args[k], t.incs[k], n_samp)
                               ELSE t.args[k]]]

\* GetSamples, given what GeneratePingSignal returned; the chord bank is
\* read as it was, since the ping loop does not touch it.
SamplesWith(t, n_samp, gen) ==
    [sig |-> [k \in 1..n_samp |-> Sample(t, gen.output, k - 1)],
     tones |-> ChordAdvanced(gen.tones, n_samp)]

\* Tones.GetSamples(n_samp): the list returned and the banks afterwards
GetSamples(t, n_samp) == SamplesWith(t, n_samp, GeneratePingSignal(t, n_samp))

\* The amplitude slot ping applies to each sample it renders in a call of
\* GeneratePingSignal(n_samp): famp at each output[i] += famp * sin(farg).
AppliedAmps(t, ping, n_samp) ==
    IF ~t.ping_is_on \/ ping >= t.n_pings THEN <<>>
    ELSE [k \in 1..Ngen(t, ping, n_samp) |->
             AmpAfter(t.ping_amps[ping + 1], t.ping_decay, k - 1)]

(***************************************************************************)
(* The ping notes made from a chord (tune.Music).                          *)
(***************************************************************************)
\* pings, as the while and for loops of MakeChordCompatiblePingNotes leave
\* it; notes is not empty.
RECURSIVE PingsWhile(_, _, _, _, _), PingsFor(_, _, _, _, _, _)
PingsWhile(notes, n_pings, pingc, multiplier, pings) ==
    IF pingc <= n_pings
    THEN PingsFor(notes, n_pings, pingc, multiplier, pings, 1)
    ELSE pings

PingsFor(notes, n_pings, pingc, multiplier, pings, k) ==
    IF k > Len(notes)
    THEN PingsWhile(notes, n_pings, pingc, RMul(multiplier, <<2, 1>>), pings)
    ELSE IF pingc + 1 >= n_pings
    THEN PingsWhile(notes, n_pings, pingc + 1, RMul(multiplier, <<2, 1>>),
                    Append(pings, RMul(notes[k], multiplier)))
    ELSE PingsFor(notes, n_pings, pingc + 1, multiplier,
                  Append(pings, RMul(notes[k], multiplier)), k + 1)

\* notes.sort() for a list of frequencies
Sorted(notes) == SortSeq(notes, LAMBDA a, b : RLt(a, b))

\* The notes of the chord alone, with no octave above them.
ChordNotesOnly(notes, n_pings) == Sorted(notes)

\* The list MakeChordCompatiblePingNotes hands to SetupPings
ChordCompatiblePingNotes(notes, n_pings) ==
    Sorted(PingsWhile(notes, n_pings, 0, One, <<>>))

(***************************************************************************)
(* The oscillator banks as a state machine: a Tones object is constructed  *)
(* and its methods are called in any order.                                *)
(***************************************************************************)
MaxOps == 4

\* The sample rate handed to Tones.  At 4 samples a second a ping lasts 4
\* or 8 samples, so a run sees it through.
SampleRate == <<4, 1>>

\* A chord as Music.chords holds it: that of spec in the 24-semitone table
\* on A3.
ChordOnA3(spec) ==
    HertzAll(ChordSpecToNotes(Notes(<<"A", "3">>, 24).notes, spec).notes)

\* Chords of three and of four notes
ChordDraws == { ChordOnA3(<<"I">>), ChordOnA3(<<"V", "7">>) }

\* Ping notes as Baller makes them of a chord for three balls, and as
\* RepeatProgression makes them
PingNoteDraws ==
    { ChordCompatiblePingNotes(ChordOnA3(<<"I">>), 3),
      Sorted(ChordOnA3(<<"v", "i">>)) }

\* time_const and dur of SetupPings
PingShapeDraws == { <<<<1, 2>>, <<1, 1>>>>, <<<<1, 4>>, <<2, 1>>>> }

\* What 8.0 * (random.random() - 0.5) gives for the notes of one call
DetuneDraws ==
    { <<<<-3, 1>>, <<1, 1>>, <<0, 1>>, <<2, 1>>, <<-1, 1>>,
        <<3, 1>>, <<-2, 1>>, <<1, 2>>>>,
      <<<<2, 1>>, <<-1, 1>>, <<3, 1>>, <<-2, 1>>, <<1, 1>>,
        <<0, 1>>, <<-3, 1>>, <<-1, 2>>>> }

\* Slots pinged: the ball_ind of the first and the third ball
PingDraws == {0, 2}

\* n_samp of GetSamples
SampleCountDraws == {1, 3}

\* new_ping_freq of Ping: left out, 0.0, or a frequency
NewPingFreqDraws ==
    { None, [none |-> FALSE, freq |-> Zero], [none |-> FALSE, freq |-> <<2, 1>>] }

Done(name, ind) ==
    /\ op' = [name |-> name, ind |-> ind]
    /\ nops' = nops + 1

\* Tones(sample_rate)
InitTones ==
    /\ tone_gen = Tones(SampleRate)
    /\ sig = <<>>
    /\ applied = <<>>
    /\ op = [name |-> "Tones", ind |-> 0]
    /\ nops = 0
    /\ mode = "none" /\ bodies = <<>> /\ ticks = 0 /\ passes = <<>>
    /\ collided = {} /\ pinged = {} /\ printed = <<>>
    /\ resolved = <<>> /\ ping_calls = <<>>
    /\ kin = <<>> /\ kout = <<>>
    /\ ProcIdle
    /\ NotesIdle /\ BallerIdle

CallChangeChord ==
    /\ nops < MaxOps
    /\ \E c \in ChordDraws : tone_gen' = ChangeChord(tone_gen, c)
    /\ Done("ChangeChord", 0)
    /\ UNCHANGED <<sig, applied, simVars, kernVars, procVars, notesVars, ballerVars>>

CallSetupPings ==
    /\ nops < MaxOps
    /\ \E ns \in PingNoteDraws, sh \in PingShapeDraws, dr \in DetuneDraws :
          tone_gen' = SetupPings(tone_gen, ns, sh[1], sh[2], dr)
    /\ Done("SetupPings", 0)
    /\ UNCHANGED <<sig, applied, simVars, kernVars, procVars, notesVars, ballerVars>>

CallPing ==
    /\ nops < MaxOps
    /\ \E i \in PingDraws, f \in NewPingFreqDraws :
          /\ i < Len(tone_gen.ping_amps)
          /\ tone_gen' = PingWith(tone_gen, i, f)
          /\ op' = [name |-> "Ping", ind |-> i, new_ping_freq |-> f]
          /\ nops' = nops + 1
    /\ UNCHANGED <<sig, applied, simVars, kernVars, procVars, notesVars, ballerVars>>

\* What a call of GetSamples(n) leaves
Got(n, r) ==
    /\ sig' = r.sig
    /\ tone_gen' = r.tones
    /\ applied' = [k \in 1..Len(tone_gen.ping_amps) |->
                      AppliedAmps(tone_gen, k - 1, n)]
    /\ Done("GetSamples", n)

CallGetSamples ==
    /\ nops < MaxOps
    /\ \E n \in SampleCountDraws : Got(n, GetSamples(tone_gen, n))
    /\ UNCHANGED <<simVars, kernVars, procVars, notesVars, ballerVars>>

CallTogglePing ==
    /\ nops < MaxOps
    /\ tone_gen' = TogglePing(tone_gen)
    /\ Done("TogglePing", 0)
    /\ UNCHANGED <<sig, applied, simVars, kernVars, procVars, notesVars, ballerVars>>

CallToggleChord ==
    /\ nops < MaxOps
    /\ tone_gen' = ToggleChord(tone_gen)
    /\ Done("ToggleChord", 0)
    /\ UNCHANGED <<sig, applied, simVars, kernVars, procVars, notesVars, ballerVars>>

CallToggleDetune ==
    /\ nops < MaxOps
    /\ tone_gen' = ToggleDetune(tone_gen)
    /\ Done("ToggleDetune", 0)
    /\ UNCHANGED <<sig, applied, simVars, kernVars, procVars, notesVars, ballerVars>>

NextTones ==
    \/ CallChangeChord
    \/ CallSetupPings
    \/ CallPing
    \/ CallGetSamples
    \/ CallTogglePing
    \/ CallToggleChord
    \/ CallToggleDetune

SpecTones == InitTones /\ [][NextTones]_vars

(***************************************************************************)
(* Properties of the oscillator banks.                                     *)
(***************************************************************************)
\* C5: GetSamples(N) returns exactly N integer samples; they are all zero
\* when both banks are empty or both the ping and the chord toggle are off.
C5_SamplesCountAndSilence ==
    op.name = "GetSamples" =>
        /\ Len(sig) = op.ind
        /\ \A k \in 1..Len(sig) : sig[k] \in Int
        /\ ( \/ (tone_gen.n_notes = 0 /\ tone_gen.n_pings = 0)
             \/ (~tone_gen.ping_is_on /\ ~tone_gen.chord_is_on) ) =>
              \A k \in 1..Len(sig) : sig[k] = 0

\* Three samples have been returned, all zero, with both toggles off and a
\* chord in the bank.
C5_Witness ==
    /\ op.name = "GetSamples" /\ op.ind = 3 /\ sig = <<0, 0, 0>>
    /\ ~tone_gen.ping_is_on /\ ~tone_gen.chord_is_on
    /\ tone_gen.n_notes > 0

NonIncreasing(amps) ==
    \A k \in 1..(Len(amps) - 1) : RLe(amps[k + 1], amps[k])

\* amps starts no higher than before and ends no lower than after
Between(before, amps, after) ==
    amps # <<>> =>
        RLe(amps[1], before) /\ RLe(after, amps[Len(amps)])

\* C6: unless the step is Ping(i), the amplitude of ping slot i does not
\* rise in a step, and the amplitudes GetSamples applies to the samples it
\* renders of slot i do not rise from one sample to the next.
C6_PingAmplitudeDecays ==
    [][\A i \in 1..Min(Len(tone_gen.ping_amps), Len(tone_gen'.ping_amps)) :
          ~(op'.name = "Ping" /\ op'.ind = i - 1) =>
              /\ RLe(tone_gen'.ping_amps[i], tone_gen.ping_amps[i])
              /\ op'.name = "GetSamples" =>
                    /\ NonIncreasing(applied'[i])
                    /\ Between(tone_gen.ping_amps[i], applied'[i],
                               tone_gen'.ping_amps[i])]_vars

\* A triggered slot has been rendered for three samples and is still
\* sounding, below the amplitude it was triggered with.
C6_Witness ==
    /\ op.name = "GetSamples"
    /\ \E i \in 1..Len(tone_gen.ping_amps) :
          /\ Len(applied[i]) = 3
          /\ applied[i][1] = tone_gen.ping_reset_amp
          /\ RLt(Zero, tone_gen.ping_amps[i])
          /\ RLt(tone_gen.ping_amps[i], applied[i][3])

\* Slot k of the ping bank is as it was: phase, amplitude, elapsed samples
SamePing(t, u, k) ==
    /\ u.ping_args[k] = t.ping_args[k]
    /\ u.ping_amps[k] = t.ping_amps[k]
    /\ u.ping_inds[k] = t.ping_inds[k]

\* C14 as claimed: a SetupPings that needs more slots than the bank holds
\* leaves the phase, amplitude and elapsed samples of every slot the bank
\* held as they were, and no ChangeChord alters the phase of a chord
\* oscillator the bank held.
C14_GrowthPreservesState ==
    [][/\ (op'.name = "SetupPings"
           /\ tone_gen'.n_pings > Len(tone_gen.ping_amps)) =>
              \A k \in 1..Len(tone_gen.ping_amps) :
                  SamePing(tone_gen, tone_gen', k)
       /\ op'.name = "ChangeChord" =>
              \A k \in 1..Min(Len(tone_gen.args), Len(tone_gen'.args)) :
                  tone_gen'.args[k] = tone_gen.args[k]]_vars

\* A bank of three slots has rendered one of the four samples of a ping of
\* its first slot at the reset amplitude, and then SetupPings, given four
\* notes, has left that slot with amplitude zero.
C14_Witness ==
    /\ op.name = "SetupPings" /\ nops = 4
    /\ Len(applied) = 3 /\ Len(applied[1]) = 1
    /\ RLt(Zero, applied[1][1])
    /\ tone_gen.n_pings = 4 /\ Len(tone_gen.ping_amps) = 4
    /\ tone_gen.ping_amps[1] = Zero

\* What the code does keep: a call that leaves the lengths of a bank as
\* they were leaves its phases as they were.
C14_SameSizeKeepsPhase ==
    [][/\ (op'.name = "SetupPings"
           /\ Len(tone_gen'.ping_amps) = Len(tone_gen.ping_amps)
           /\ tone_gen'.n_pings <= tone_gen.n_pings) =>
              \A k \in 1..Len(tone_gen.ping_amps) :
                  SamePing(tone_gen, tone_gen', k)
       /\ (op'.name = "ChangeChord"
           /\ tone_gen'.n_notes <= Len(tone_gen.notes)) =>
              tone_gen'.args = tone_gen.args]_vars

\* The sum of the amplitudes of the chord oscillators below j
RECURSIVE ChordAmplitude(_, _)
ChordAmplitude(t, j) ==
    IF j = 0 THEN Zero ELSE RAdd(ChordAmplitude(t, j - 1), t.amps[j])

\* C15 as claimed: after ChangeChord with k notes every active chord
\* oscillator has amplitude 6000 / k, so that the active amplitudes add up
\* to 6000 for a chord of three notes as for one of four.
C15_ChordAmplitudeByCount ==
    op.name = "ChangeChord" =>
        /\ \A j \in 1..tone_gen.n_notes :
              tone_gen.amps[j] = RDiv(<<6000, 1>>, <<tone_gen.n_notes, 1>>)
        /\ ChordAmplitude(tone_gen, tone_gen.n_notes) = <<6000, 1>>

\* ChangeChord has set a chord of three notes, whose oscillators have the
\* amplitude 1500 each that ResetChord(4) gave them.
C15_Witness ==
    /\ op.name = "ChangeChord" /\ tone_gen.n_notes = 3
    /\ \A j \in 1..3 : tone_gen.amps[j] = <<1500, 1>>
    /\ ChordAmplitude(tone_gen, 3) = <<4500, 1>>

\* What the code does: every chord oscillator has the amplitude 6000 over
\* the size of the bank, whatever the chord.
C15_ChordAmplitudeByBank ==
    \A j \in 1..Len(tone_gen.amps) :
        tone_gen.amps[j] = RDiv(<<6000, 1>>, <<Len(tone_gen.amps), 1>>)

\* The ping bank u with slot k taken from the ping bank t
WithSlotOf(u, t, k) ==
    [u EXCEPT !.ping_args[k] = t.ping_args[k],
              !.ping_amps[k] = t.ping_amps[k],
              !.ping_inds[k] = t.ping_inds[k],
              !.ping_incs[k] = t.ping_incs[k]]

\* Ping(i, f) has changed slot i only: phase 0, amplitude ping_reset_amp,
\* elapsed count 0, the increment only when f was given; every other slot,
\* the chord bank and every other attribute are as they were.
OnlySlotTriggered(t, u, i, f) ==
    /\ u.ping_args[i + 1] = Zero
    /\ u.ping_amps[i + 1] = t.ping_reset_amp
    /\ u.ping_inds[i + 1] = 0
    /\ u.ping_incs[i + 1] # t.ping_incs[i + 1] => ~f.none
    /\ WithSlotOf(u, t, i + 1) = t

\* No slot is rendered beyond ping_samples samples: a call of GetSamples
\* renders slot k in no more samples than it had left.
NoneAfter(t, u, k) ==
    /\ Len(applied'[k]) <= IF t.ping_inds[k] < t.ping_samples
                            THEN t.ping_samples - t.ping_inds[k] ELSE 0
    /\ u.ping_inds[k] = t.ping_inds[k] + Len(applied'[k])

\* C26 as claimed: Ping(i) changes slot i only, and the slot then
\* contributes to exactly the next ping_samples samples rendered, however
\* they are split into calls of GetSamples: to every sample of the call
\* that follows the trigger, up to ping_samples, and to none once it has
\* contributed to ping_samples samples.
C26_PingRingsNextSamples ==
    [][/\ op'.name = "Ping" =>
             OnlySlotTriggered(tone_gen, tone_gen', op'.ind, op'.new_ping_freq)
       /\ (op.name = "Ping" /\ op'.name = "GetSamples") =>
             Len(applied'[op.ind + 1]) = Min(op'.ind, tone_gen.ping_samples)
       /\ op'.name = "GetSamples" =>
             \A k \in 1..Len(tone_gen.ping_inds) :
                 NoneAfter(tone_gen, tone_gen', k)]_vars

\* Slot 0, one of the active slots, was triggered while the pings were
\* toggled off, and the three samples rendered next were rendered without
\* it: it is still at the amplitude and the count the trigger gave it.
C26_Witness ==
    /\ op.name = "GetSamples" /\ op.ind = 3
    /\ ~tone_gen.ping_is_on
    /\ tone_gen.n_pings > 0
    /\ tone_gen.ping_inds[1] = 0
    /\ tone_gen.ping_amps[1] = tone_gen.ping_reset_amp
    /\ applied[1] = <<>>

\* What the code does: the same, for a slot below n_pings and as long as
\* the pings are toggled on when the samples are rendered; a slot at or
\* above n_pings, and any slot while the pings are off, is not rendered and
\* keeps the count it has.
C26_PingRingsWhileOn ==
    [][/\ op'.name = "Ping" =>
             OnlySlotTriggered(tone_gen, tone_gen', op'.ind, op'.new_ping_freq)
       /\ (op.name = "Ping" /\ op'.name = "GetSamples") =>
             Len(applied'[op.ind + 1]) =
                 IF tone_gen.ping_is_on /\ op.ind < tone_gen.n_pings
                 THEN Min(op'.ind, tone_gen.ping_samples) ELSE 0
       /\ op'.name = "GetSamples" =>
             \A k \in 1..Len(tone_gen.ping_inds) :
                 NoneAfter(tone_gen, tone_gen', k)]_vars

(***************************************************************************)
(* The audio stream (tune.Music).  pa_stream is "None", or the state of    *)
(* the PyAudio stream: "stopped" as open(start=False) leaves it, "active"  *)
(* while its callback is being called, "complete" once the callback has    *)
(* returned paComplete.  pc is where the program's thread is in            *)
(* StopAudioOutput and SetupAudioStream, cb where the callback's thread is *)
(* in HandleAudioOutput; was_on is what StopAudioOutput read of audio_on,  *)
(* returned the flag HandleAudioOutput returned last.  Times are in        *)
(* seconds.                                                                *)
(***************************************************************************)
n_frames == 2048

\* The attributes of Music.__init__ that the stream is run by
MusicAttributes ==
    [audio_on |-> FALSE, pa_stream |-> "None", pc |-> "idle",
     caller |-> "none", was_on |-> FALSE, slept |-> Zero, raised |-> FALSE,
     cb |-> "idle", returned |-> "none"]

\* The playback time of one buffer
BufferTime(fs) == RDiv(<<n_frames, 1>>, fs)

\* A sleep of half a buffer.
ShortSleep(fs) == RDiv(RMul(<<1, 2>>, <<n_frames, 1>>), fs)

\* 1.5 * self.n_frames/self.fs
SleepTime(fs) == RDiv(RMul(<<3, 2>>, <<n_frames, 1>>), fs)

\* StopAudioOutput, called by caller: if self.audio_on: self.audio_on = False
StopBegin(m, caller) ==
    IF m.audio_on
    THEN [m EXCEPT !.audio_on = FALSE, !.pc = "sleep", !.caller = caller,
                   !.was_on = TRUE, !.slept = Zero, !.raised = FALSE]
    ELSE [m EXCEPT !.pc = "close", !.caller = caller, !.was_on = FALSE,
                   !.slept = Zero, !.raised = FALSE]

\* time.sleep(1.5 * self.n_frames/self.fs)
StopSleep(m, fs) == [m EXCEPT !.slept = SleepTime(fs), !.pc = "close"]

\* if self.pa_stream: self.pa_stream.close(); self.pa_stream = None
StopClose(m) ==
    [m EXCEPT !.pa_stream = "None",
              !.pc = IF m.caller = "SetupAudioStream" THEN "open" ELSE "idle"]

\* self.pa_stream = self.pyaudio.open(..., start=False, ...)
SetupOpen(m) == [m EXCEPT !.pa_stream = "stopped", !.pc = "idle"]

\* Music.StopAudioOutput() from its call to its return
StopAudioOutput(m, fs, caller) ==
    StopClose(IF m.audio_on THEN StopSleep(StopBegin(m, caller), fs)
              ELSE StopBegin(m, caller))

\* Music.SetupAudioStream() from its call to its return
SetupAudioStream(m, fs) ==
    SetupOpen(StopAudioOutput(m, fs, "SetupAudioStream"))

\* Music.StartAudio(): start_stream is an attribute of the stream, and None
\* has none (AttributeError)
StartAudio(m) ==
    IF m.audio_on THEN [m EXCEPT !.raised = FALSE]
    ELSE IF m.pa_stream = "None"
    THEN [m EXCEPT !.audio_on = TRUE, !.raised = TRUE]
    ELSE [m EXCEPT !.audio_on = TRUE, !.pa_stream = "active",
                   !.raised = FALSE]

\* HandleAudioOutput, whatever audio_on is, going on to GetSamples.
HandleAlwaysRenders(m) == [m EXCEPT !.cb = "render"]

\* The first two lines of HandleAudioOutput
HandleBegin(m) ==
    IF ~m.audio_on
    THEN [m EXCEPT !.pa_stream = "complete", !.returned = "paComplete"]
    ELSE [m EXCEPT !.cb = "render"]

\* return data, pyaudio.paContinue
HandleEnd(m) == [m EXCEPT !.cb = "idle", !.returned = "paContinue"]

(***************************************************************************)
(* The chord progression (balls9.Baller driving tune.Music).               *)
(***************************************************************************)
size_range == <<20, 100>>

\* base_ind of CreateBalls, for the mass m of the biggest ball
BaseInd(m) ==
    RTrunc(RAdd(<<1, 2>>,
                RDiv(RMul(<<size_range[2] - m, 1>>, <<12, 1>>),
                     <<size_range[2] - size_range[1], 1>>)))

\* Notes.GetNoteName(note_ind)
GetNoteName(note_ind) == c_sharp_names[(note_ind % 12) + 1]

\* An entry of Music.chords: the notes as frequencies, or None
ChordFrequencies(r) ==
    IF r.none THEN None ELSE [none |-> FALSE, notes |-> HertzAll(r.notes)]

\* self.chords as the loop of Music.SetupProgression fills it
SetupProgression(chord_seq, notes) ==
    [k \in 1..Len(chord_seq) |->
        ChordFrequencies(ChordSpecToNotes(notes, chord_seq[k]))]

\* Music.ChangeChord(chord_ind)
MusicChangeChord(t, chord_list, chord_ind) ==
    ChangeChord(t, chord_list[chord_ind + 1].notes)

\* Music.MakeChordCompatiblePingNotes(chord_ind, n_pings)
MakeChordCompatiblePingNotes(t, chord_list, chord_ind, n_pings, draws) ==
    SetupPings(t,
               ChordCompatiblePingNotes(chord_list[chord_ind + 1].notes, n_pings),
               <<1, 2>>, <<1, 1>>, draws)

\* Baller.ChangeNotes: the chord and the ping notes of the cursor
ChangeNotes(t, chord_list, cursor, n, draws) ==
    MakeChordCompatiblePingNotes(MusicChangeChord(t, chord_list, cursor),
                                 chord_list, cursor, n, draws)

\* len(new_notes) of Tones.ChangeChord raises TypeError when the entry of
\* Music.chords is None
Raises(chord_list, chord_ind) == chord_list[chord_ind + 1].none

\* Baller.ChangeNotes, left by the exception if there is one
TriedChangeNotes(t, chord_list, cursor, n, draws) ==
    IF Raises(chord_list, cursor) THEN t
    ELSE ChangeNotes(t, chord_list, cursor, n, draws)

\* The calls of music.Ping of Orbits.Increment: Tones.Ping(ball_ind) for
\* each ball_ind in hit_balls that is within the bank (IndexError if not)
PingEach(t, hit_balls) ==
    [t EXCEPT
       !.ping_amps = [k \in 1..Len(t.ping_amps) |->
                        IF (k - 1) \in hit_balls THEN t.ping_reset_amp
                        ELSE t.ping_amps[k]],
       !.ping_inds = [k \in 1..Len(t.ping_inds) |->
                        IF (k - 1) \in hit_balls THEN 0 ELSE t.ping_inds[k]],
       !.ping_args = [k \in 1..Len(t.ping_args) |->
                        IF (k - 1) \in hit_balls THEN Zero ELSE t.ping_args[k]]]

\* What Baller.Start leaves of the stream: CreateBalls stops it,
\* SetupAudioStream opens it anew, and StartAudio starts it unless
\* ChangeNotes raised
StartedAudio(m, raised) ==
    IF raised
    THEN SetupAudioStream(StopAudioOutput(m, SampleRate, "CreateBalls"),
                          SampleRate)
    ELSE StartAudio(SetupAudioStream(StopAudioOutput(m, SampleRate,
                                                     "CreateBalls"),
                                     SampleRate))

\* The cursor moved on by two.
NextStepSkipping(i, len) == (i + 2) % len

\* (self.prog_step_i + 1) % len(self.progression)
NextStep(i, len) == (i + 1) % len

MaxAdvances == 6
MaxRestarts == 1

\* Progressions: Baller's default, one chord only, and one given on the
\* command line with a seventh and a flatted degree.
ProgressionDraws ==
    { << <<"I">>, <<"v", "i">>, <<"i", "i">>, <<"I", "V">>, <<"V">> >>,
      << <<"I">> >>,
      << <<"I">>, <<"V", "7">>, <<"b", "V", "I", "I">> >> }

\* Mass of the biggest ball and number of balls of a round: the fewest
\* balls under the biggest ball, the most under a smaller one
RoundDraws == { <<100, 3>>, <<47, 7>> }

\* What CreateBalls and ChangeNotes leave of a round with biggest mass m
\* and n balls, the cursor being where it was; the orbit runs (mode is
\* "orbit") once Start has reached self.orbit.Start()
Round(t, m, n, draws) ==
    /\ note_gen' = Notes(GetNoteName(BaseInd(m)), 24)
    /\ chords' = SetupProgression(progression, note_gen'.notes)
    /\ n_balls' = n
    /\ tone_gen' = TriedChangeNotes(t, chords', prog_step_i, n, draws)
    /\ trail' = <<[cursor |-> prog_step_i, notes |-> tone_gen'.notes]>>
    /\ op' = [name |-> "Restart", ind |-> prog_step_i,
              raised |-> Raises(chords', prog_step_i)]
    /\ mode' = IF Raises(chords', prog_step_i) THEN "none" ELSE "orbit"
    /\ music' = StartedAudio(StopAudioOutput(music, SampleRate, "Restart"),
                             Raises(chords', prog_step_i))

\* Progressions given on the command line with a specifier that
\* ChordSpecToIndices does not know, after the first chord or in its place
MalformedDraws ==
    { << <<"I">>, <<"X">>, <<"V">> >>,
      << <<"I", "I", "I", "I">>, <<"I">> >> }

\* Baller(...), SetProgression and Start, for a progression of progs, a
\* round of rounds and detunings of detunes
StartFrom(progs, rounds, detunes) ==
    /\ progression \in progs
    /\ prog_step_i = 0
    /\ \E rd \in rounds, draws \in detunes :
          /\ note_gen = Notes(GetNoteName(BaseInd(rd[1])), 24)
          /\ chords = SetupProgression(progression, note_gen.notes)
          /\ n_balls = rd[2]
          /\ tone_gen = TriedChangeNotes(Tones(SampleRate), chords, 0, rd[2],
                                         draws)
    /\ trail = <<[cursor |-> 0, notes |-> tone_gen.notes]>>
    /\ call = NoCall /\ prev = NoCall
    /\ sig = <<>> /\ applied = <<>>
    /\ op = [name |-> "Start", ind |-> 0, raised |-> Raises(chords, 0)]
    /\ music = StartedAudio(MusicAttributes, Raises(chords, 0))
    /\ nops = 0
    /\ mode = (IF Raises(chords, 0) THEN "none" ELSE "orbit")
    /\ bodies = <<>> /\ ticks = 0 /\ passes = <<>>
    /\ collided = {} /\ pinged = {} /\ printed = <<>>
    /\ resolved = <<>> /\ ping_calls = <<>>
    /\ kin = <<>> /\ kout = <<>>
    /\ MainIdle /\ ThreadsIdle

\* The same with no event loop in the model
StartWith(progs) ==
    /\ StartFrom(progs, RoundDraws, DetuneDraws)
    /\ timers = <<>>

InitBaller == StartWith(ProgressionDraws)

InitMalformed == StartWith(MalformedDraws)

\* main ends with the traceback when the first Start raises
Running == ~(op.name = "Start" /\ op.raised)

\* Baller.ProgressChord up to its call of after, with detunings of detunes
ProgressChordRuns(detunes) ==
    /\ Running
    /\ Len(trail) <= MaxAdvances
    /\ prog_step_i' = NextStep(prog_step_i, Len(progression))
    /\ \E draws \in detunes :
          tone_gen' = TriedChangeNotes(tone_gen, chords, prog_step_i',
                                       n_balls, draws)
    /\ trail' = Append(trail, [cursor |-> prog_step_i',
                               notes |-> tone_gen'.notes])
    /\ op' = [name |-> "ProgressChord", ind |-> prog_step_i',
              raised |-> Raises(chords, prog_step_i')]
    /\ UNCHANGED <<progression, chords, n_balls, note_gen, call, prev,
                   sig, applied, nops, music, simVars, kernVars, mainVars,
                   threadVars>>

\* Baller.ProgressChord (the timer's callback and, through
\* ProgressChordEvent, the mouse button's)
ProgressChord == ProgressChordRuns(DetuneDraws) /\ UNCHANGED timers

\* hit_balls of a tick: two balls that met, or every ball of the round
HitDraws(n) == { {0, n - 1}, 0..(n - 1) }

\* Orbits.Increment up to its call of after, as far as the banks see it: a
\* tick of a round that started, in which the balls of hit_balls collided
IncrementRuns ==
    /\ Running
    /\ mode = "orbit"
    /\ \E hit_balls \in HitDraws(n_balls) :
          /\ pinged' = hit_balls
          /\ ping_calls' = Iteration(hit_balls)
          /\ tone_gen' = PingEach(tone_gen, hit_balls)
          /\ op' = [name |-> "Increment", ind |-> 0,
                    raised |-> \E i \in hit_balls : i >= Len(tone_gen.ping_amps)]
    /\ UNCHANGED <<progression, prog_step_i, chords, n_balls, trail, note_gen,
                   music, call, prev, sig, applied, nops, mode, bodies, ticks, passes,
                   collided, printed, resolved, kernVars, mainVars, threadVars>>

\* Orbits.Increment
IncrementPings == IncrementRuns /\ UNCHANGED timers

\* Baller.Restart past its call of after_cancel: Start again, with new
\* balls, a round of rounds and detunings of detunes
RestartRuns(rounds, detunes) ==
    /\ Running
    /\ nops < MaxRestarts
    /\ \E rd \in rounds, draws \in detunes :
          Round(tone_gen, rd[1], rd[2], draws)
    /\ nops' = nops + 1
    /\ UNCHANGED <<progression, prog_step_i, call, prev, sig, applied,
                   bodies, ticks, passes, collided, pinged, printed, resolved, ping_calls,
                   kernVars, mainVars, threadVars>>

\* Baller.Restart
Restart == RestartRuns(RoundDraws, DetuneDraws) /\ UNCHANGED timers

NextBaller == ProgressChord \/ Restart \/ IncrementPings

SpecBaller == InitBaller /\ [][NextBaller]_vars

\* The same program started with a malformed progression
SpecMalformed == InitMalformed /\ [][NextBaller]_vars

\* C7: each advance moves the cursor to (cursor + 1) mod len(progression);
\* the cursor is an index into the progression and into the chord list; and
\* len(progression) advances bring back the cursor and the chord.
C7_CursorCycles ==
    /\ \A k \in 2..Len(trail) :
          trail[k].cursor = (trail[k - 1].cursor + 1) % Len(progression)
    /\ 0 <= prog_step_i /\ prog_step_i < Len(progression)
    /\ Len(chords) = Len(progression)
    /\ trail[Len(trail)].cursor = prog_step_i
    /\ \A k \in 1..Len(trail) :
          k + Len(progression) <= Len(trail) =>
              /\ trail[k + Len(progression)].cursor = trail[k].cursor
              /\ trail[k + Len(progression)].notes = trail[k].notes

\* Five advances of the default progression, begun away from its first
\* chord, have come back to the chord they began with.
C7_Witness ==
    /\ Len(progression) = 5
    /\ op.name = "ProgressChord"
    /\ Len(trail) = 6
    /\ trail[1].cursor = 3 /\ trail[6].cursor = 3
    /\ trail[4].cursor = 1 /\ trail[4].notes # trail[1].notes
    /\ trail[6].notes = trail[1].notes


\* C16 as claimed: with a malformed specifier in the progression,
\* SetupProgression completes with an entry for every specifier, and Start,
\* Restart and every advance of the cursor complete without raising, at the
\* position of the malformed entry too.
C16_MalformedNotFatal ==
    /\ Len(chords) = Len(progression)
    /\ ~op.raised

\* The cursor has advanced to the malformed entry, which SetupProgression
\* left as None in the chord list, and ChangeChord has raised.
C16_Witness ==
    /\ op.name = "ProgressChord" /\ op.raised
    /\ progression[prog_step_i + 1] = <<"X">>
    /\ chords[prog_step_i + 1] = None

\* What the code does: a step raises exactly when the entry of the cursor
\* is None, and the entries that are None are those of the specifiers
\* ChordSpecToIndices does not know.
C16_RaisesAtMalformedOnly ==
    /\ Len(chords) = Len(progression)
    /\ op.name \in {"Start", "Restart", "ProgressChord"} =>
          (op.raised <=> chords[prog_step_i + 1] = None)
    /\ \A k \in 1..Len(chords) :
          chords[k] = None <=> progression[k] \in OtherSpecs

\* The first k entries of chord * 1, chord * 2, chord * 4, ...
OctaveSequence(chord, k) ==
    [i \in 1..k |-> Octaves(chord[((i - 1) % Len(chord)) + 1],
                            (i - 1) \div Len(chord))]

Ascending(list) ==
    \A i \in 1..(Len(list) - 1) : RLe(list[i], list[i + 1])

\* C17 as claimed: the list MakeChordCompatiblePingNotes hands to
\* SetupPings is ascending, has at least as many notes as there are balls,
\* and is made of the first so many entries of the chord repeated octave
\* upon octave.
C17_PingNotesAreOctavePrefix ==
    (op.name \in {"Start", "Restart", "ProgressChord"} /\ ~op.raised) =>
        /\ Ascending(tone_gen.ping_notes)
        /\ Len(tone_gen.ping_notes) >= n_balls
        /\ tone_gen.ping_notes =
              Sorted(OctaveSequence(tone_gen.notes, Len(tone_gen.ping_notes)))

\* For three balls and a chord of four notes the list has the three lowest
\* notes of the chord and the octave of the lowest, and not the fourth.
C17_Witness ==
    /\ op.name = "ProgressChord" /\ n_balls = 3
    /\ Len(tone_gen.notes) = 4 /\ Len(tone_gen.ping_notes) = 4
    /\ tone_gen.ping_notes[4] = RMul(<<2, 1>>, tone_gen.notes[1])
    /\ \A i \in 1..4 : tone_gen.ping_notes[i] # tone_gen.notes[4]

\* What the code does: the list is ascending and has one note more than
\* there are balls.
C17_PingNotesOneMoreThanBalls ==
    (op.name \in {"Start", "Restart", "ProgressChord"} /\ ~op.raised) =>
        /\ Ascending(tone_gen.ping_notes)
        /\ Len(tone_gen.ping_notes) = n_balls + 1

\* The sum of the amplitudes of the slots below ping that GeneratePingSignal
\* does not skip
RECURSIVE RingingAmplitude(_, _)
RingingAmplitude(t, ping) ==
    IF ping = 0 THEN Zero
    ELSE RAdd(RingingAmplitude(t, ping - 1),
              IF t.ping_inds[ping] >= t.ping_samples THEN Zero
              ELSE t.ping_amps[ping])

\* The most a sample of GetSamples can amount to
PeakAmplitude(t) ==
    RAdd(RingingAmplitude(t, t.n_pings), ChordAmplitude(t, t.n_notes))

\* C20 as claimed: the amplitudes of the ringing ping slots and of the
\* active chord oscillators add up to 32767 at most, so that no sample
\* leaves the signed 16-bit range.
C20_AmplitudeWithinInt16 == RLe(PeakAmplitude(tone_gen), <<32767, 1>>)

\* The seven balls of a round have been pinged in one tick under a chord of
\* four notes: seven slots of amplitude 4000 and four oscillators of 1500.
C20_Witness ==
    /\ op.name = "Increment" /\ n_balls = 7 /\ pinged = 0..6
    /\ tone_gen.n_notes = 4
    /\ tone_gen.ping_reset_amp = <<4000, 1>>
    /\ PeakAmplitude(tone_gen) = <<34000, 1>>

\* What the code does keep: the ping slots stay within 32000 and the chord
\* oscillators within 6000.
C20_AmplitudeWithinBudgets ==
    /\ RLe(RingingAmplitude(tone_gen, tone_gen.n_pings), <<32000, 1>>)
    /\ RLe(ChordAmplitude(tone_gen, tone_gen.n_notes), <<6000, 1>>)

\* C13: each bank is at least as large as its active count, and every slot
\* index a tick of the orbit passes to Ping, a ball_ind of the round that
\* is running, is below n_pings.
C13_BanksCoverActive ==
    /\ Len(tone_gen.ping_args) >= tone_gen.n_pings
    /\ Len(tone_gen.ping_incs) >= tone_gen.n_pings
    /\ Len(tone_gen.ping_amps) >= tone_gen.n_pings
    /\ Len(tone_gen.ping_inds) >= tone_gen.n_pings
    /\ Len(tone_gen.args) >= tone_gen.n_notes
    /\ Len(tone_gen.incs) >= tone_gen.n_notes
    /\ Len(tone_gen.amps) >= tone_gen.n_notes
    /\ mode = "orbit" => \A ball_ind \in 0..(n_balls - 1) :
                            ball_ind < tone_gen.n_pings
    /\ op.name = "Increment" =>
          /\ ~op.raised
          /\ \A ball_ind \in pinged : ball_ind < tone_gen.n_pings

\* Every ball of a round of three has been pinged in a tick, in a bank that
\* a round of seven balls had grown to eight slots.
C13_Witness ==
    /\ op.name = "Increment" /\ n_balls = 3 /\ pinged = {0, 1, 2}
    /\ tone_gen.n_pings = 4 /\ Len(tone_gen.ping_amps) = 8
    /\ tone_gen.ping_amps[3] = tone_gen.ping_reset_amp


(***************************************************************************)
(* The audio stream as a state machine: a Music object with a chord in its *)
(* bank, whose SetupAudioStream, StartAudio and StopAudioOutput are called *)
(* in any order by the program's thread, while PortAudio's thread calls    *)
(* HandleAudioOutput as long as the stream is active.                      *)
(***************************************************************************)
InitAudio ==
    /\ music = MusicAttributes
    /\ \E c \in ChordDraws : tone_gen = ChangeChord(Tones(SampleRate), c)
    /\ sig = <<>> /\ applied = <<>>
    /\ op = [name |-> "Music", ind |-> 0]
    /\ nops = 0
    /\ progression = <<>> /\ prog_step_i = 0 /\ chords = <<>>
    /\ n_balls = 0 /\ trail = <<>>
    /\ NotesIdle
    /\ mode = "none" /\ bodies = <<>> /\ ticks = 0 /\ passes = <<>>
    /\ collided = {} /\ pinged = {} /\ printed = <<>>
    /\ resolved = <<>> /\ ping_calls = <<>>
    /\ kin = <<>> /\ kout = <<>>
    /\ ProcIdle

\* What the steps of the stream leave alone
AudioOnly ==
    UNCHANGED <<tone_gen, sig, applied, op, nops, progression, prog_step_i,
                chords, n_balls, trail, notesVars, simVars, kernVars, procVars, procVars>>

CallStopAudioOutput ==
    /\ music.pc = "idle"
    /\ music' = StopBegin(music, "StopAudioOutput")
    /\ AudioOnly

CallSetupAudioStream ==
    /\ music.pc = "idle"
    /\ music' = StopBegin(music, "SetupAudioStream")
    /\ AudioOnly

SleepInStop ==
    /\ music.pc = "sleep"
    /\ music' = StopSleep(music, tone_gen.fs)
    /\ AudioOnly

CloseInStop ==
    /\ music.pc = "close"
    /\ music' = StopClose(music)
    /\ AudioOnly

OpenInSetup ==
    /\ music.pc = "open"
    /\ music' = SetupOpen(music)
    /\ AudioOnly

CallStartAudio ==
    /\ music.pc = "idle"
    /\ music' = StartAudio(music)
    /\ AudioOnly

\* PortAudio calls the callback of an active stream
HandleAudioOutput ==
    /\ music.cb = "idle" /\ music.pa_stream = "active"
    /\ music' = HandleBegin(music)
    /\ AudioOnly

\* What GetSamples leaves, for the callback
Rendered(r) ==
    /\ sig' = r.sig
    /\ tone_gen' = r.tones

\* data = array.array('h', self.tone_gen.GetSamples(n_samps)).tostring()
RenderInHandle ==
    /\ music.cb = "render"
    /\ \E n_samps \in SampleCountDraws : Rendered(GetSamples(tone_gen, n_samps))
    /\ music' = HandleEnd(music)
    /\ UNCHANGED <<applied, op, nops, progression, prog_step_i, chords,
                   n_balls, trail, notesVars, simVars, kernVars, procVars, procVars>>

NextAudio ==
    \/ CallStopAudioOutput
    \/ CallSetupAudioStream
    \/ SleepInStop
    \/ CloseInStop
    \/ OpenInSetup
    \/ CallStartAudio
    \/ HandleAudioOutput
    \/ RenderInHandle

SpecAudio == InitAudio /\ [][NextAudio]_vars

\* C18 as claimed: whatever the order of the calls, audio_on is true only
\* while there is an opened stream, and audio_on becomes true only from the
\* armed state (a stream opened and not started), which it leaves started.
C18_AudioLifecycle ==
    [][/\ music'.audio_on => music'.pa_stream # "None"
       /\ (~music.audio_on /\ music'.audio_on) =>
              (music.pa_stream = "stopped" /\ music'.pa_stream = "active")]_vars

\* StartAudio, called with no stream opened, has set audio_on and raised.
C18_Witness ==
    /\ music.pc = "idle" /\ music.raised
    /\ music.audio_on /\ music.pa_stream = "None"

\* What the code does keep: a stream is active or complete only with
\* audio_on set or a StopAudioOutput under way, and StartAudio has raised
\* only where it set audio_on with no stream opened.
C18_ActiveOnlyWhenOn ==
    /\ music.pa_stream = "active" =>
          (music.audio_on \/ music.pc \in {"sleep", "close"})
    /\ music.pa_stream = "complete" =>
          (~music.audio_on /\ music.pc \in {"sleep", "close"})
    /\ music.raised => (music.audio_on /\ music.pa_stream = "None")

\* C19: StopAudioOutput, called while streaming (audio_on set and a stream
\* opened), sleeps with audio_on cleared and closes the stream only after a
\* sleep of one buffer's playback time at least; and a callback that begins
\* with audio_on cleared returns paComplete without going on to
\* GetSamples, the banks and the samples being left as they were.
C19_StopClearsSleepsCloses ==
    [][/\ (music.pc = "sleep" /\ music'.pc # "sleep"
           /\ music.pa_stream # "None") =>
              (~music.audio_on /\ music.was_on /\ music.slept = Zero)
       /\ (music.pc = "close" /\ music'.pc # "close" /\ music.was_on
           /\ music.pa_stream # "None") =>
              /\ ~music.audio_on
              /\ RLe(BufferTime(tone_gen.fs), music.slept)
              /\ music'.pa_stream = "None"
       /\ (music.cb = "idle" /\ music.pa_stream = "active" /\ ~music.audio_on
           /\ (music'.cb # "idle" \/ music'.pa_stream = "complete")) =>
              /\ music'.cb = "idle" /\ music'.returned = "paComplete"
              /\ tone_gen' = tone_gen /\ sig' = sig]_vars

\* StopAudioOutput, called while the stream was rendering, has closed the
\* stream after its sleep, and the callback that began in between has
\* returned paComplete.
C19_Witness ==
    /\ music.pc = "idle" /\ music.caller = "StopAudioOutput" /\ music.was_on
    /\ music.slept = SleepTime(tone_gen.fs)
    /\ music.pa_stream = "None" /\ ~music.audio_on
    /\ music.returned = "paComplete" /\ music.cb = "idle"
    /\ sig # <<>>


(***************************************************************************)
(* pend.main: the command line.  A specification given on the command line *)
(* is a string, here the sequence of its characters.                       *)
(***************************************************************************)
\* spec.split(','): the fields between the commas; one more field than
\* there are commas, empty fields included.
RECURSIVE SplitFrom(_, _, _, _)
SplitFrom(s, i, field, bits) ==
    IF i > Len(s) THEN Append(bits, field)
    ELSE IF s[i] = "," THEN SplitFrom(s, i + 1, <<>>, Append(bits, field))
    ELSE SplitFrom(s, i + 1, Append(field, s[i]), bits)

\* A split that drops empty fields.
RECURSIVE SplitNonEmptyFrom(_, _, _, _)
SplitNonEmptyFrom(s, i, field, bits) ==
    IF i > Len(s) THEN (IF field = <<>> THEN bits ELSE Append(bits, field))
    ELSE IF s[i] # "," THEN SplitNonEmptyFrom(s, i + 1, Append(field, s[i]), bits)
    ELSE IF field = <<>> THEN SplitNonEmptyFrom(s, i + 1, <<>>, bits)
    ELSE SplitNonEmptyFrom(s, i + 1, <<>>, Append(bits, field))
SplitNonEmpty(s) == SplitNonEmptyFrom(s, 1, <<>>, <<>>)

Split(s) == SplitFrom(s, 1, <<>>, <<>>)

\* float(text) strips white space, takes a sign, and then accepts a decimal
\* number (digits with at most one point and at least one digit, and an
\* optional exponent) or one of inf, infinity, nan in any case.
RECURSIVE LStrip(_)
LStrip(s) == IF s # <<>> /\ s[1] = " " THEN LStrip(Tail(s)) ELSE s
RECURSIVE RStrip(_)
RStrip(s) ==
    IF s # <<>> /\ s[Len(s)] = " " THEN RStrip(SubSeq(s, 1, Len(s) - 1)) ELSE s
Strip(s) == RStrip(LStrip(s))

HasSign(s) == s # <<>> /\ s[1] \in {"+", "-"}
Unsigned(s) == IF HasSign(s) THEN Tail(s) ELSE s

\* The first position of s holding a character of cs, 0 when there is none
Find(s, cs) ==
    IF \E k \in 1..Len(s) : s[k] \in cs
    THEN CHOOSE k \in 1..Len(s) :
             s[k] \in cs /\ \A j \in 1..(k - 1) : s[j] \notin cs
    ELSE 0
Before(s, k) == IF k = 0 THEN s ELSE SubSeq(s, 1, k - 1)
After(s, k) == IF k = 0 THEN <<>> ELSE SubSeq(s, k + 1, Len(s))

AllDigits(s) == \A k \in 1..Len(s) : IsDigit(s[k])
IsMantissa(s) ==
    /\ AllDigits(Before(s, Find(s, {"."})))
    /\ AllDigits(After(s, Find(s, {"."})))
    /\ Len(Before(s, Find(s, {"."}))) + Len(After(s, Find(s, {"."}))) > 0
IsExponent(s) == Unsigned(s) # <<>> /\ AllDigits(Unsigned(s))
IsDecimal(s) ==
    IF Find(s, {"e", "E"}) = 0 THEN IsMantissa(s)
    ELSE /\ IsMantissa(Before(s, Find(s, {"e", "E"})))
         /\ IsExponent(After(s, Find(s, {"e", "E"})))

LowerCase(c) ==
    CASE c = "I" -> "i" [] c = "N" -> "n" [] c = "F" -> "f" [] c = "T" -> "t"
      [] c = "Y" -> "y" [] c = "A" -> "a" [] OTHER -> c
IsSpecial(s) ==
    [k \in 1..Len(s) |-> LowerCase(s[k])]
        \in { <<"i", "n", "f">>, <<"n", "a", "n">>,
              <<"i", "n", "f", "i", "n", "i", "t", "y">> }

\* float(text) returns (it raises ValueError otherwise)
FloatAccepts(text) ==
    IsDecimal(Unsigned(Strip(text))) \/ IsSpecial(Unsigned(Strip(text)))

RECURSIVE NatOf(_)
NatOf(s) ==
    IF s = <<>> THEN 0
    ELSE 10 * NatOf(SubSeq(s, 1, Len(s) - 1)) + DigitValue(s[Len(s)])
RECURSIVE Pow10(_)
Pow10(k) == IF k = 0 THEN 1 ELSE 10 * Pow10(k - 1)

\* The value of digits.digits
MantissaValue(s) ==
    Norm(NatOf(Before(s, Find(s, {"."}))) * Pow10(Len(After(s, Find(s, {"."}))))
            + NatOf(After(s, Find(s, {"."}))),
         Pow10(Len(After(s, Find(s, {"."})))))
Scaled(x, e) ==
    IF HasSign(e) /\ e[1] = "-" THEN RDiv(x, R(Pow10(NatOf(Unsigned(e)))))
    ELSE RMul(x, R(Pow10(NatOf(Unsigned(e)))))
DecimalValue(s) ==
    Scaled(MantissaValue(Before(s, Find(s, {"e", "E"}))),
           After(s, Find(s, {"e", "E"})))
Signed(s, x) == IF HasSign(s) /\ s[1] = "-" THEN <<-x[1], x[2]>> ELSE x

\* float(text) for a text it accepts: a rational, or a record for the
\* values that are no rationals
FloatOfStripped(s) ==
    IF IsDecimal(Unsigned(s)) THEN Signed(s, DecimalValue(Unsigned(s)))
    ELSE [special |-> [k \in 1..3 |-> LowerCase(Unsigned(s)[k])],
          negative |-> HasSign(s) /\ s[1] = "-"]
Float(text) == FloatOfStripped(Strip(text))

\* What DecodePendulums writes to sys.stderr for a specification
IllFormed(spec) == [text |-> "Ill-formed specification: %s\n", spec |-> spec]
BadValue(spec) == [text |-> "Bad value in specification: %s\n", spec |-> spec]

\* The body of the for loop of DecodePendulums, for bits = spec.split(',')
DecodeOne(spec, bits, d) ==
    IF Len(bits) # 3
    THEN [d EXCEPT !.stderr = Append(d.stderr, IllFormed(spec))]
    ELSE IF ~(FloatAccepts(bits[1]) /\ FloatAccepts(bits[2]))
    THEN [d EXCEPT !.stderr = Append(d.stderr, BadValue(spec))]
    ELSE [d EXCEPT !.ret = Append(d.ret, <<Float(bits[1]), Float(bits[2]), bits[3]>>)]

RECURSIVE DecodeFrom(_, _, _)
DecodeFrom(specs, k, d) ==
    IF k > Len(specs) THEN d
    ELSE DecodeFrom(specs, k + 1, DecodeOne(specs[k], Split(specs[k]), d))

\* pend.DecodePendulums(specs): the list returned and what was written to
\* sys.stderr on the way
DecodePendulums(specs) == DecodeFrom(specs, 1, [ret |-> <<>>, stderr |-> <<>>])

\* main's default: [[0.1, 0.0, '#00ff00'], [0.1, 270.01, 'blue'],
\* [0.1, 180.0, 'red']]
DefaultPends ==
    << <<<<1, 10>>, R(0), <<"#", "0", "0", "f", "f", "0", "0">>>>,
       <<<<1, 10>>, <<27001, 100>>, <<"b", "l", "u", "e">>>>,
       <<<<1, 10>>, R(180), <<"r", "e", "d">>>> >>

Usage == [text |-> "Usage: %s mass1,angle1,color1 mass2,angle2,color2 ...\n"]

\* Specifications the command line may hold: well formed ones (with a
\* fraction, an exponent, white space, a sign, a mass of zero, an empty
\* colour), and ones with too few or too many fields, an empty field, or a
\* field that is no number.  No specification holds inf or nan: rational
\* arithmetic has no value for them.
SpecDraws ==
    { <<"1", ",", "9", "0", ",", "r", "e", "d">>,
      <<".", "5", ",", "2", "7", "0", ".", "0", "1", ",", "b">>,
      <<"2", "e", "-", "1", ",", "-", "9", "1", ",", "g">>,
      <<" ", "3", ",", "8", "0", " ", ",", "r">>,
      <<"0", ",", "4", "5", ",", "g">>,
      <<"-", "1", ",", "9", "0", ",", "b">>,
      <<"1", ",", "9", "0", ",">>,
      <<"1", ",", "9", "0">>,
      <<"1", ",", "9", "0", ",", "r", ",", "x">>,
      <<"x", ",", "9", "0", ",", "r">>,
      <<"1", ",", ",", "r">>,
      <<"1", ",", "9", "o", ",", "r">>,
      <<".", ",", "1", "-", ",", "r">>,
      <<>> }
MaxSpecs == 2

\* Command lines: none or up to MaxSpecs of the specifications above, and
\* a few longer ones that mix well formed and malformed specifications.
ArgDraws ==
    UNION { [1..n -> SpecDraws] : n \in 0..MaxSpecs }
    \cup { << <<"1", ",", "9", "0", ",", "r", "e", "d">>,
              <<"1", ",", "9", "0">>,
              <<".", "5", ",", "2", "7", "0", ".", "0", "1", ",", "b">>,
              <<"x", ",", "9", "0", ",", "r">>,
              <<"2", "e", "-", "1", ",", "-", "9", "1", ",", "g">> >>,
           << <<"1", ",", "9", "0", ",", "r", ",", "x">>,
              <<"1", ",", "8", "9", ",", "b">>,
              <<"-", "1", ",", "8", "9", ",", "r">> >> }

InitPend ==
    /\ args \in ArgDraws
    /\ main_pends = <<>>
    /\ stderr = <<>>
    /\ SimIdle
    /\ KernIdle
    /\ TuneIdle
    /\ ThreadsIdle
    /\ timers = <<>>

\* if len(args) > 1: pends = DecodePendulums(args[1:]), else the default
\* (args here is sys.argv without the program's name)
Decoded(argv) ==
    IF Len(argv) > 0 THEN DecodePendulums(argv)
    ELSE [ret |-> DefaultPends, stderr |-> <<>>]

\* pend.main up to p.Run(): without pendulums it writes the usage and
\* exits; otherwise it constructs Pendulums(pends, length=0.4) and Run
\* starts the thread of RunPendulums.
Main ==
    /\ mode = "none"
    /\ main_pends' = Decoded(args).ret
    /\ stderr' = (IF main_pends' = <<>>
                  THEN Append(Decoded(args).stderr, Usage)
                  ELSE Decoded(args).stderr)
    /\ mode' = (IF main_pends' = <<>> THEN "exit" ELSE "pend")
    /\ bodies' = (IF main_pends' = <<>> THEN <<>>
                  ELSE Pendulums(main_pends', PendLength, PendDeltaT))
    /\ UNCHANGED <<args, ticks, passes, collided, pinged, printed, resolved,
                   ping_calls, kernVars,
                   tuneVars, threadVars, timers>>

\* The thread main started, followed for its first turns
MaxTurns == 3
RunThread == ticks < MaxTurns /\ RunPendulums

NextPend == Main \/ RunThread

SpecPend == InitPend /\ [][NextPend]_vars

(***************************************************************************)
(* Properties of the command line.                                         *)
(***************************************************************************)
\* The number of commas of a specification
Commas(spec) == Cardinality({k \in 1..Len(spec) : spec[k] = ","})

\* The three fields of a specification with two commas: what is before the
\* first comma, between the two, and after the second
Field1(spec) == Before(spec, Find(spec, {","}))
Field2(spec) ==
    Before(After(spec, Find(spec, {","})),
           Find(After(spec, Find(spec, {","})), {","}))
Field3(spec) ==
    After(After(spec, Find(spec, {","})),
          Find(After(spec, Find(spec, {","})), {","}))

\* Exactly three comma-separated fields, the first two of which parse as
\* numbers
WellFormed(spec) ==
    /\ Commas(spec) = 2
    /\ FloatAccepts(Field1(spec))
    /\ FloatAccepts(Field2(spec))

EntryOf(spec) == <<Float(Field1(spec)), Float(Field2(spec)), Field3(spec)>>

\* The diagnostics DecodePendulums wrote
Reports == SelectSeq(stderr, LAMBDA line : line.text \in {IllFormed(<<>>).text,
                                                          BadValue(<<>>).text})

\* C21: DecodePendulums does not fail; the list it returns holds, in the
\* order of the command line, exactly one (mass, angle, color) entry for
\* each specification with exactly three comma-separated fields whose first
\* two parse as numbers, and none for any other; every other specification
\* is reported on sys.stderr.
C21_DecodeKeepsWellFormed ==
    (mode # "none" /\ args # <<>>) =>
        /\ Len(main_pends) = Len(SelectSeq(args, WellFormed))
        /\ \A k \in 1..Len(main_pends) :
              main_pends[k] = EntryOf(SelectSeq(args, WellFormed)[k])
        /\ Len(Reports) = Len(args) - Len(main_pends)
        /\ \A k \in 1..Len(Reports) :
              Reports[k].spec = SelectSeq(args, LAMBDA x : ~WellFormed(x))[k]

\* Five specifications were given, the second and fourth malformed (one of
\* two fields, one whose mass is no number), and the list holds the three
\* others, the last with the mass 2e-1 = 1/5 and the angle -91.
C21_Witness ==
    /\ mode # "none"
    /\ Len(args) = 5 /\ Len(main_pends) = 3
    /\ Len(Reports) = 2
    /\ Reports[1].text = IllFormed(<<>>).text
    /\ Reports[2].text = BadValue(<<>>).text
    /\ main_pends[1][1] = R(1)
    /\ main_pends[3] = << <<1, 5>>, R(-91), <<"g">> >>

\* The tracebacks of ZeroDivisionError on sys.stderr
Divisions ==
    SelectSeq(stderr, LAMBDA line : line = Traceback("ZeroDivisionError"))

\* C22 as claimed: every pendulum built from the command line has a mass
\* above 0, so that Pend.Step never divides by a mass of 0 and Elastic is
\* never reached with m1 + m2 = 0.
C22_MassesPositive ==
    /\ \A i \in 1..Len(bodies) : RLt(Zero, bodies[i].mass)
    /\ Divisions = <<>>

\* The command line gave a pendulum the mass 0, and the first Step of the
\* thread ended in ZeroDivisionError.
C22_Witness ==
    /\ mode = "dead"
    /\ \E i \in 1..Len(bodies) : bodies[i].mass = Zero
    /\ Divisions # <<>>

\* The command line gave two pendulums at the same angle masses that add up
\* to 0, and Elastic ended in ZeroDivisionError.
C22_ElasticDivides ==
    /\ mode = "dead"
    /\ \A i \in 1..Len(bodies) : bodies[i].mass # Zero
    /\ Divisions # <<>>

\* What the code does ensure: no specification is lost or altered on the
\* way into the simulation; pendulum k has the mass of entry k.
C22_MassesAsGiven ==
    mode \in {"pend", "dead"} =>
        /\ Len(bodies) = Len(main_pends)
        /\ \A i \in 1..Len(bodies) : bodies[i].mass = main_pends[i][1]

(***************************************************************************)
(* Rounds of the orbit: Baller.Start puts the balls of a new round into    *)
(* the orbit (ClobberBalls, then AddBalls(CreateBalls())), Orbits.Increment*)
(* moves them, and Baller.Restart starts the next round.                   *)
(***************************************************************************)
\* A ClobberBalls that leaves the list as it is.
ClobberKeepsBalls(balls) == balls

\* Orbits.ClobberBalls: self.balls = []
ClobberBalls(balls) == <<>>

\* Orbits.AddBalls: self.balls.extend(new_balls)
AddBalls(balls, new_balls) == balls \o new_balls

\* The orders balls.sort(reverse=True) may leave the pairs [size, ball] in:
\* largest size first; balls of the same size in either order (the sort
\* then compares the Ball objects, by their addresses).
Sortings(sizes) ==
    { p \in [1..Len(sizes) -> 1..Len(sizes)] :
        /\ \A i, j \in 1..Len(sizes) : i # j => p[i] # p[j]
        /\ \A i \in 1..(Len(sizes) - 1) : sizes[p[i]] >= sizes[p[i + 1]] }

\* Baller.CreateBalls for the drawn sizes and velocities (ball i is made
\* at starts[i]) and the order p the sort left
CreateBallsIn(sizes, vs, p) ==
    [k \in 1..Len(sizes) |->
        [m |-> R(sizes[p[k]]), angle |-> starts(p[k] - 1),
         v |-> vs[p[k]], ball_ind |-> k - 1]]

\* Baller.Start as far as the orbit's list goes
RoundOf(balls, sizes, vs, p) ==
    AddBalls(ClobberBalls(balls), CreateBallsIn(sizes, vs, p))

\* Draws of CreateBalls: three to five balls, sizes within [20, 100] (two
\* of them equal in one round), velocities within v_range
NewRoundDraws ==
    { << <<100, 60, 20>>, <<R(1), R(-1), R(0)>> >>,
      << <<20, 100, 20>>, <<R(-1), R(1), <<1, 2>>>> >>,
      << <<50, 80, 20, 65>>, <<R(1), R(0), R(-1), R(1)>> >>,
      << <<33, 99, 20, 65, 47>>, <<R(1), R(-1), R(1), R(-1), R(1)>> >> }

InitRounds ==
    /\ mode = "orbit"
    /\ \E rd \in NewRoundDraws : \E p \in Sortings(rd[1]) :
          bodies = RoundOf(<<>>, rd[1], rd[2], p)
    /\ ticks = 0
    /\ passes = <<>>
    /\ collided = {}
    /\ pinged = {}
    /\ printed = <<>>
    /\ resolved = <<>> /\ ping_calls = <<>>
    /\ KernIdle
    /\ TuneIdle
    /\ ProcIdle

\* Baller.Restart, as far as the orbit's list goes; nops counts the
\* restarts
RestartRound ==
    /\ mode = "orbit"
    /\ nops < MaxRestarts
    /\ \E rd \in NewRoundDraws : \E p \in Sortings(rd[1]) :
          bodies' = RoundOf(bodies, rd[1], rd[2], p)
    /\ nops' = nops + 1
    /\ UNCHANGED <<mode, ticks, passes, collided, pinged, printed, resolved,
                   ping_calls, kernVars,
                   notesVars, tone_gen, sig, applied, op, ballerVars, procVars>>

NextRounds == Increment \/ RestartRound

SpecRounds == InitRounds /\ [][NextRounds]_vars

\* The balls are those CreateBalls has just made: three to seven of them,
\* each at a start position of its own, largest first
NewlyCreated(balls) ==
    /\ Len(balls) \in 3..7
    /\ \A k \in 1..Len(balls) : \E i \in 0..10 : balls[k].angle = starts(i)
    /\ \A j, k \in 1..Len(balls) : j # k => balls[j].angle # balls[k].angle
    /\ \A k \in 1..(Len(balls) - 1) : RLe(balls[k + 1].m, balls[k].m)

\* C23: after every round start the orbit holds exactly the balls of the
\* new round; the ball at position k of the list has ball_ind = k, all
\* through the round; and a tick changes no ball_ind.
C23_BallIndIsPosition ==
    /\ [](\A k \in 1..Len(bodies) : bodies[k].ball_ind = k - 1)
    /\ [][nops' # nops => NewlyCreated(bodies')]_vars
    /\ [][nops' = nops =>
            /\ Len(bodies') = Len(bodies)
            /\ \A k \in 1..Len(bodies) :
                  bodies'[k].ball_ind = bodies[k].ball_ind]_vars

\* A round of three balls was restarted after a tick in which balls
\* collided; the new round has five balls, and ticks have moved them since.
C23_Witness ==
    /\ nops = 1
    /\ Len(bodies) = 5
    /\ collided # {}
    /\ \E k \in 1..5 : \A i \in 0..10 : bodies[k].angle # starts(i)
    /\ \A k \in 1..5 : bodies[k].ball_ind = k - 1

(***************************************************************************)
(* The audio callback against the calls made while the stream runs.        *)
(* PyAudio runs Music.HandleAudioOutput on a thread of its own; the Tk     *)
(* thread (Baller.ProgressChord, Orbits.Increment) or the main thread      *)
(* (Music.RepeatProgression) calls Ping, ChangeChord and SetupPings on the *)
(* same Tones object meanwhile, with no lock.  Each step below is one      *)
(* statement of tune.py; the threads' steps interleave freely.             *)
(***************************************************************************)
\* n_samp of the callback
StreamSamples == 2

\* Calls into the Tones object, by the audio callback and by the other
\* thread together
MaxCalls == 2

\* The audio thread outside the callback
AudioAtRest ==
    [pc |-> "idle", output |-> <<>>, decay |-> Zero, n |-> 0, ping |-> 0,
     ngen |-> 0, finc |-> Zero, farg |-> Zero, famp |-> Zero,
     i |-> 0, j |-> 0, sum |-> Zero, sig |-> <<>>]

\* The other thread outside the Tones object
CallerAtRest ==
    [pc |-> "idle", call |-> "none", ind |-> 0, freq |-> None,
     notes |-> <<>>, shape |-> <<Zero, Zero>>, draws |-> <<>>, k |-> 0]

\* list[index] raises no IndexError
Has(list, index) == index < Len(list)

\* output after the sample loop of a slot:
\* for i in range(ngen): output[i] += famp * math.sin(farg)
Mixed(output, ngen, famp, farg, finc, decay) ==
    [k \in 1..Len(output) |->
        IF k <= ngen
        THEN RAdd(output[k], RMul(AmpAfter(famp, decay, k - 1),
                                  Sin(ArgAfter(farg, finc, k - 1))))
        ELSE output[k]]

\* range(ngen) has no turns for a negative ngen
Turns(ngen) == IF ngen < 0 THEN 0 ELSE ngen

\* The banks as they are when StartAudio opens the stream: a chord and its
\* pings set up, by RepeatProgression (three slots) or by Baller for three
\* balls (four slots)
StreamBanks ==
    { SetupPings(ChangeChord(Tones(SampleRate), ChordOnA3(<<"I">>)), ns,
                 <<1, 2>>, <<1, 1>>,
                 <<<<-3, 1>>, <<1, 1>>, <<0, 1>>, <<2, 1>>>>) :
        ns \in PingNoteDraws }

\* A bank whose first slot was pinged and has rung for one sample
Ringing(t) == GetSamples(Ping(t, 0), 1).tones

InitStream ==
    /\ tone_gen \in StreamBanks \cup { Ringing(t) : t \in StreamBanks }
    /\ audio_thread = AudioAtRest
    /\ main_thread = CallerAtRest
    /\ sig = <<>>
    /\ applied = <<>>
    /\ op = [name |-> "StartAudio", ind |-> 0]
    /\ nops = 0
    /\ mode = "none" /\ bodies = <<>> /\ ticks = 0 /\ passes = <<>>
    /\ collided = {} /\ pinged = {} /\ printed = <<>>
    /\ resolved = <<>> /\ ping_calls = <<>>
    /\ kin = <<>> /\ kout = <<>>
    /\ MainIdle /\ timers = <<>>
    /\ NotesIdle /\ BallerIdle

\* What no step of either thread touches
StreamFrame ==
    UNCHANGED <<applied, simVars, kernVars, mainVars, timers, notesVars,
                ballerVars>>

\* A step of the audio thread
AudioStep(pc) ==
    /\ audio_thread # <<>>
    /\ audio_thread.pc = pc
    /\ UNCHANGED <<main_thread, op>>
    /\ StreamFrame

\* The audio thread goes on at pc with its locals as they are
AudioAt(pc) == audio_thread' = [audio_thread EXCEPT !.pc = pc]

\* HandleAudioOutput calls GetSamples(n_samps), which calls
\* GeneratePingSignal: output = [0.0 for i in range(n_samp)];
\* if not self.ping_is_on: return output
CallbackBegins ==
    /\ AudioStep("idle")
    /\ nops < MaxCalls
    /\ nops' = nops + 1
    /\ audio_thread' =
          [audio_thread EXCEPT
              !.pc = IF tone_gen.ping_is_on THEN "decay" ELSE "sample",
              !.output = Filled(StreamSamples, Zero),
              !.sig = <<>>]
    /\ UNCHANGED <<tone_gen, sig>>

\* decay = self.ping_decay
ReadsDecay ==
    /\ AudioStep("decay")
    /\ audio_thread' = [audio_thread EXCEPT !.pc = "range",
                                            !.decay = tone_gen.ping_decay]
    /\ UNCHANGED <<tone_gen, sig, nops>>

\* for ping in range(self.n_pings): the range is made once
ReadsRange ==
    /\ AudioStep("range")
    /\ audio_thread' = [audio_thread EXCEPT !.pc = "slot",
                                            !.n = tone_gen.n_pings,
                                            !.ping = 0]
    /\ UNCHANGED <<tone_gen, sig, nops>>

\* The next slot, or the end of GeneratePingSignal;
\* if self.ping_inds[ping] >= self.ping_samples: continue
TestsSlot ==
    /\ AudioStep("slot")
    /\ audio_thread' =
          IF audio_thread.ping >= audio_thread.n
          THEN [audio_thread EXCEPT !.pc = "sample", !.ping = 0, !.n = 0,
                                    !.decay = Zero]
          ELSE IF ~Has(tone_gen.ping_inds, audio_thread.ping)
          THEN [audio_thread EXCEPT !.pc = "IndexError"]
          ELSE IF tone_gen.ping_inds[audio_thread.ping + 1]
                     >= tone_gen.ping_samples
          THEN [audio_thread EXCEPT !.ping = @ + 1]
          ELSE [audio_thread EXCEPT !.pc = "ngen"]
    /\ UNCHANGED <<tone_gen, sig, nops>>

\* ngen = min(n_samp, self.ping_samples - self.ping_inds[ping])
SetsNgen ==
    /\ AudioStep("ngen")
    /\ audio_thread' =
          IF ~Has(tone_gen.ping_inds, audio_thread.ping)
          THEN [audio_thread EXCEPT !.pc = "IndexError"]
          ELSE [audio_thread EXCEPT
                  !.pc = "finc",
                  !.ngen = Min(StreamSamples,
                               tone_gen.ping_samples
                                 - tone_gen.ping_inds[audio_thread.ping + 1])]
    /\ UNCHANGED <<tone_gen, sig, nops>>

\* finc = self.ping_incs[ping]
ReadsFinc ==
    /\ AudioStep("finc")
    /\ audio_thread' =
          IF ~Has(tone_gen.ping_incs, audio_thread.ping)
          THEN [audio_thread EXCEPT !.pc = "IndexError"]
          ELSE [audio_thread EXCEPT
                  !.pc = "farg",
                  !.finc = tone_gen.ping_incs[audio_thread.ping + 1]]
    /\ UNCHANGED <<tone_gen, sig, nops>>

\* farg = self.ping_args[ping]
ReadsFarg ==
    /\ AudioStep("farg")
    /\ audio_thread' =
          IF ~Has(tone_gen.ping_args, audio_thread.ping)
          THEN [audio_thread EXCEPT !.pc = "IndexError"]
          ELSE [audio_thread EXCEPT
                  !.pc = "famp",
                  !.farg = tone_gen.ping_args[audio_thread.ping + 1]]
    /\ UNCHANGED <<tone_gen, sig, nops>>

\* The locals after famp = self.ping_amps[ping] and the sample loop, which
\* touches nothing but locals
SlotRendered(a, famp) ==
    [a EXCEPT !.pc = "ping_amps",
              !.output = Mixed(a.output, a.ngen, famp, a.farg, a.finc, a.decay),
              !.famp = AmpAfter(famp, a.decay, Turns(a.ngen)),
              !.farg = ArgAfter(a.farg, a.finc, Turns(a.ngen))]

\* famp = self.ping_amps[ping], then the sample loop
ReadsFamp ==
    /\ AudioStep("famp")
    /\ audio_thread' =
          IF ~Has(tone_gen.ping_amps, audio_thread.ping)
          THEN [audio_thread EXCEPT !.pc = "IndexError"]
          ELSE SlotRendered(audio_thread, tone_gen.ping_amps[audio_thread.ping + 1])
    /\ UNCHANGED <<tone_gen, sig, nops>>

\* self.ping_amps[ping] = famp
WritesAmps ==
    /\ AudioStep("ping_amps")
    /\ IF ~Has(tone_gen.ping_amps, audio_thread.ping)
       THEN AudioAt("IndexError") /\ UNCHANGED tone_gen
       ELSE /\ AudioAt("ping_args")
            /\ tone_gen' = [tone_gen EXCEPT
                  !.ping_amps[audio_thread.ping + 1] = audio_thread.famp]
    /\ UNCHANGED <<sig, nops>>

\* self.ping_args[ping] = farg
WritesArgs ==
    /\ AudioStep("ping_args")
    /\ IF ~Has(tone_gen.ping_args, audio_thread.ping)
       THEN AudioAt("IndexError") /\ UNCHANGED tone_gen
       ELSE /\ AudioAt("ping_inds")
            /\ tone_gen' = [tone_gen EXCEPT
                  !.ping_args[audio_thread.ping + 1] = audio_thread.farg]
    /\ UNCHANGED <<sig, nops>>

\* self.ping_inds[ping] += ngen, and on to the next slot
WritesInds ==
    /\ AudioStep("ping_inds")
    /\ IF ~Has(tone_gen.ping_inds, audio_thread.ping)
       THEN AudioAt("IndexError") /\ UNCHANGED tone_gen
       ELSE /\ audio_thread' =
                  [audio_thread EXCEPT !.pc = "slot", !.ping = @ + 1,
                                       !.ngen = 0, !.finc = Zero,
                                       !.farg = Zero, !.famp = Zero]
            /\ tone_gen' = [tone_gen EXCEPT
                  !.ping_inds[audio_thread.ping + 1] = @ + audio_thread.ngen]
    /\ UNCHANGED <<sig, nops>>

\* GetSamples, for i in range(n_samp): sum = pings[i];
\* if self.chord_is_on: for j in range(self.n_notes): the range is made
\* anew for each sample.  After the last sample GetSamples returns sig.
StartsSample ==
    /\ AudioStep("sample")
    /\ IF audio_thread.i >= StreamSamples
       THEN /\ sig' = audio_thread.sig
            /\ audio_thread' = AudioAtRest
       ELSE /\ audio_thread' =
                  [audio_thread EXCEPT
                      !.pc = "note",
                      !.sum = audio_thread.output[audio_thread.i + 1],
                      !.n = IF tone_gen.chord_is_on THEN tone_gen.n_notes
                            ELSE 0,
                      !.j = 0]
            /\ UNCHANGED sig
    /\ UNCHANGED <<tone_gen, nops>>

\* sum += self.amps[j] * math.sin(self.args[j]);
\* self.args[j] = math.fmod(self.args[j] + self.incs[j], self.pi2);
\* after the last note sig[i] = int(sum)
AddsNote ==
    /\ AudioStep("note")
    /\ IF audio_thread.j >= audio_thread.n
       THEN /\ audio_thread' =
                  [audio_thread EXCEPT
                      !.pc = "sample", !.i = @ + 1, !.j = 0, !.n = 0,
                      !.sum = Zero,
                      !.sig = Append(@, RTrunc(audio_thread.sum))]
            /\ UNCHANGED tone_gen
       ELSE IF ~(/\ Has(tone_gen.amps, audio_thread.j)
                 /\ Has(tone_gen.args, audio_thread.j)
                 /\ Has(tone_gen.incs, audio_thread.j))
       THEN AudioAt("IndexError") /\ UNCHANGED tone_gen
       ELSE /\ audio_thread' =
                  [audio_thread EXCEPT
                      !.j = @ + 1,
                      !.sum = RAdd(@, RMul(tone_gen.amps[audio_thread.j + 1],
                                  Sin(tone_gen.args[audio_thread.j + 1])))]
            /\ tone_gen' = [tone_gen EXCEPT
                  !.args[audio_thread.j + 1] =
                      FmodTurn(RAdd(@, tone_gen.incs[audio_thread.j + 1]))]
    /\ UNCHANGED <<sig, nops>>

\* The audio callback, statement by statement
Callback ==
    \/ CallbackBegins \/ ReadsDecay \/ ReadsRange \/ TestsSlot \/ SetsNgen
    \/ ReadsFinc \/ ReadsFarg \/ ReadsFamp \/ WritesAmps \/ WritesArgs
    \/ WritesInds \/ StartsSample \/ AddsNote

\* A step of the other thread inside the method at one of pcs
CallerStep(pcs) ==
    /\ main_thread # <<>>
    /\ main_thread.pc \in pcs
    /\ UNCHANGED <<audio_thread, sig, nops>>
    /\ StreamFrame

\* The other thread goes on at pc
CallerAt(pc) ==
    /\ main_thread' = [main_thread EXCEPT !.pc = pc]
    /\ UNCHANGED op

\* The method returns
Returns ==
    /\ main_thread' = CallerAtRest
    /\ op' = [name |-> main_thread.call, ind |-> main_thread.ind]

\* A call begins
Calls(name, pc, ind, freq, notes, shape, draws) ==
    /\ main_thread # <<>>
    /\ main_thread.pc = "idle"
    /\ nops < MaxCalls
    /\ nops' = nops + 1
    /\ main_thread' = [pc |-> pc, call |-> name, ind |-> ind, freq |-> freq,
                       notes |-> notes, shape |-> shape, draws |-> draws,
                       k |-> 0]
    /\ UNCHANGED <<audio_thread, sig, op>>
    /\ StreamFrame

\* new_ping_freq of the pings made while the stream runs: none is given
StreamFreqDraws == { None }

\* Tones.Ping(ping_ind, new_ping_freq) is called, from Orbits.Increment for
\* a ball that collided or from RepeatProgression for a note, and runs
\* if new_ping_freq: self.ping_incs[ping_ind] = ...
CallsPing ==
    \E i \in PingDraws, f \in StreamFreqDraws :
        /\ i < tone_gen.n_pings
        /\ Calls("Ping", "reset_amp", i, f, <<>>, <<Zero, Zero>>, <<>>)
        /\ tone_gen' = IF Given(f)
                       THEN [tone_gen EXCEPT
                               !.ping_incs[i + 1] = RDiv(f.freq, tone_gen.fs)]
                       ELSE tone_gen

\* self.ping_amps[ping_ind] = self.ping_reset_amp;
\* self.ping_inds[ping_ind] = 0; self.ping_args[ping_ind] = 0.0
Pings ==
    /\ CallerStep({"reset_amp", "reset_ind", "reset_arg"})
    /\ tone_gen' =
          CASE main_thread.pc = "reset_amp" ->
                 [tone_gen EXCEPT
                    !.ping_amps[main_thread.ind + 1] = tone_gen.ping_reset_amp]
            [] main_thread.pc = "reset_ind" ->
                 [tone_gen EXCEPT !.ping_inds[main_thread.ind + 1] = 0]
            [] main_thread.pc = "reset_arg" ->
                 [tone_gen EXCEPT !.ping_args[main_thread.ind + 1] = Zero]
    /\ CASE main_thread.pc = "reset_amp" -> CallerAt("reset_ind")
         [] main_thread.pc = "reset_ind" -> CallerAt("reset_arg")
         [] main_thread.pc = "reset_arg" -> Returns

\* if len(ping_notes) > self.n_pings: of SetupPings
NeedsResetAlways(t, ping_notes) == TRUE
NeedsReset(t, ping_notes) == Len(ping_notes) > t.n_pings

\* Tones.SetupPings(ping_notes, time_const, dur) is called, from
\* Baller.ProgressChord or RepeatProgression, and tests whether to reset
CallsSetupPings ==
    \E ns \in PingNoteDraws, sh \in { <<<<1, 2>>, <<1, 1>>>> } :
        /\ Calls("SetupPings",
                 IF NeedsReset(tone_gen, ns) THEN "ping_notes" ELSE "notes",
                 0, None, ns, sh,
                 <<<<2, 1>>, <<-1, 1>>, <<3, 1>>, <<-2, 1>>>>)
        /\ UNCHANGED tone_gen

\* The statements of Tones.ResetPings(len(ping_notes)), in their order
ResetPingsOrder ==
    <<"ping_notes", "ping_args", "ping_incs", "ping_reset_amp", "ping_amps",
      "ping_decay", "ping_samples", "ping_inds", "n_pings">>

\* The statement after pc in order; last after the last one
After1(order, pc, last) ==
    IF pc = order[Len(order)] THEN last
    ELSE order[(CHOOSE k \in 1..Len(order) : order[k] = pc) + 1]

\* One statement of Tones.ResetPings(max_notes)
ResetPingsStep(t, pc, max_notes) ==
    CASE pc = "ping_notes" -> [t EXCEPT !.ping_notes = Filled(max_notes, Zero)]
      [] pc = "ping_args" -> [t EXCEPT !.ping_args = Filled(max_notes, Zero)]
      [] pc = "ping_incs" -> [t EXCEPT !.ping_incs = Filled(max_notes, Zero)]
      [] pc = "ping_reset_amp" ->
           [t EXCEPT !.ping_reset_amp = RDiv(<<32000, 1>>, <<max_notes, 1>>)]
      [] pc = "ping_amps" -> [t EXCEPT !.ping_amps = Filled(max_notes, Zero)]
      [] pc = "ping_decay" -> [t EXCEPT !.ping_decay = <<1999, 2000>>]
      [] pc = "ping_samples" -> [t EXCEPT !.ping_samples = RTrunc(t.fs)]
      [] pc = "ping_inds" ->
           [t EXCEPT !.ping_inds = Filled(max_notes, t.ping_samples)]
      [] pc = "n_pings" -> [t EXCEPT !.n_pings = 0]

\* The reset inside SetupPings
ResetsPings ==
    /\ CallerStep({ ResetPingsOrder[k] : k \in 1..Len(ResetPingsOrder) })
    /\ tone_gen' = ResetPingsStep(tone_gen, main_thread.pc,
                                  Len(main_thread.notes))
    /\ CallerAt(After1(ResetPingsOrder, main_thread.pc, "notes"))

\* self.ping_notes = ping_notes; self.ping_samples = int(dur * self.fs);
\* self.ping_decay = math.exp(-1.0 / (time_const * self.fs)), and the loop
\* is entered
SetsUpPings ==
    /\ CallerStep({"notes", "samples", "decay"})
    /\ tone_gen' =
          CASE main_thread.pc = "notes" ->
                 [tone_gen EXCEPT !.ping_notes = main_thread.notes]
            [] main_thread.pc = "samples" ->
                 [tone_gen EXCEPT !.ping_samples =
                     RTrunc(RMul(main_thread.shape[2], tone_gen.fs))]
            [] main_thread.pc = "decay" ->
                 [tone_gen EXCEPT !.ping_decay =
                     ExpOfMinusInverse(RMul(main_thread.shape[1], tone_gen.fs))]
    /\ CallerAt(CASE main_thread.pc = "notes" -> "samples"
                  [] main_thread.pc = "samples" -> "decay"
                  [] main_thread.pc = "decay" -> "incs")

\* for i in range(len(ping_notes)): self.ping_incs[i] = pi2 * freq / fs;
\* then self.n_pings = len(ping_notes)
SetsIncs ==
    /\ CallerStep({"incs"})
    /\ IF main_thread.k >= Len(main_thread.notes)
       THEN /\ tone_gen' = [tone_gen EXCEPT
                              !.n_pings = Len(main_thread.notes)]
            /\ Returns
       ELSE IF ~Has(tone_gen.ping_incs, main_thread.k)
       THEN CallerAt("IndexError") /\ UNCHANGED tone_gen
       ELSE /\ tone_gen' = [tone_gen EXCEPT
                  !.ping_incs[main_thread.k + 1] =
                      RDiv(PingFreq(tone_gen, main_thread.notes,
                                    main_thread.draws, main_thread.k + 1),
                           tone_gen.fs)]
            /\ main_thread' = [main_thread EXCEPT !.k = @ + 1]
            /\ UNCHANGED op

\* Tones.ChangeChord(new_notes) is called, from Baller.ProgressChord or
\* RepeatProgression, and tests if len(new_notes) > len(self.notes)
CallsChangeChord ==
    \E c \in ChordDraws :
        /\ Calls("ChangeChord",
                 IF Len(c) > Len(tone_gen.notes) THEN "chord_notes"
                 ELSE "new_notes",
                 0, None, c, <<Zero, Zero>>, <<>>)
        /\ UNCHANGED tone_gen

\* The statements of Tones.ResetChord(len(new_notes)), in their order
ResetChordOrder == <<"chord_notes", "args", "chord_incs", "amps", "n_notes">>

\* One statement of Tones.ResetChord(max_notes)
ResetChordStep(t, pc, max_notes) ==
    CASE pc = "chord_notes" -> [t EXCEPT !.notes = Filled(max_notes, Zero)]
      [] pc = "args" -> [t EXCEPT !.args = Filled(max_notes, Zero)]
      [] pc = "chord_incs" -> [t EXCEPT !.incs = Filled(max_notes, Zero)]
      [] pc = "amps" ->
           [t EXCEPT !.amps = Filled(max_notes,
                                     RDiv(<<6000, 1>>, <<max_notes, 1>>))]
      [] pc = "n_notes" -> [t EXCEPT !.n_notes = 0]

\* The reset inside ChangeChord
ResetsChord ==
    /\ CallerStep({ ResetChordOrder[k] : k \in 1..Len(ResetChordOrder) })
    /\ tone_gen' = ResetChordStep(tone_gen, main_thread.pc,
                                  Len(main_thread.notes))
    /\ CallerAt(After1(ResetChordOrder, main_thread.pc, "new_notes"))

\* self.notes = new_notes; self.n_notes = len(new_notes)
ChangesChord ==
    /\ CallerStep({"new_notes", "new_n_notes"})
    /\ tone_gen' =
          CASE main_thread.pc = "new_notes" ->
                 [tone_gen EXCEPT !.notes = main_thread.notes]
            [] main_thread.pc = "new_n_notes" ->
                 [tone_gen EXCEPT !.n_notes = Len(main_thread.notes)]
    /\ CallerAt(CASE main_thread.pc = "new_notes" -> "new_n_notes"
                  [] main_thread.pc = "new_n_notes" -> "new_incs")

\* for i in range(self.n_notes): self.incs[i] = pi2 * self.notes[i] / fs
ChangesIncs ==
    /\ CallerStep({"new_incs"})
    /\ IF main_thread.k >= Len(main_thread.notes)
       THEN Returns /\ UNCHANGED tone_gen
       ELSE IF ~Has(tone_gen.incs, main_thread.k)
       THEN CallerAt("IndexError") /\ UNCHANGED tone_gen
       ELSE /\ tone_gen' = [tone_gen EXCEPT
                  !.incs[main_thread.k + 1] =
                      RDiv(tone_gen.notes[main_thread.k + 1], tone_gen.fs)]
            /\ main_thread' = [main_thread EXCEPT !.k = @ + 1]
            /\ UNCHANGED op

\* What the thread that drives the music does to the Tones object
Caller ==
    \/ CallsPing \/ Pings
    \/ CallsSetupPings \/ ResetsPings \/ SetsUpPings \/ SetsIncs
    \/ CallsChangeChord \/ ResetsChord \/ ChangesChord \/ ChangesIncs

NextStream == Callback \/ Caller

SpecStream == InitStream /\ [][NextStream]_vars

\* Neither thread is inside the Tones object, and the call the other thread
\* made last was Ping
BothReturnedAfterPing ==
    /\ audio_thread # <<>>
    /\ main_thread # <<>>
    /\ audio_thread.pc = "idle"
    /\ main_thread.pc = "idle"
    /\ op.name = "Ping"

\* Slot ping rings from the reset amplitude, k samples into the ring
RingsFromReset(t, ping, k) ==
    /\ t.ping_amps[ping + 1] = AmpAfter(t.ping_reset_amp, t.ping_decay, k)
    /\ t.ping_inds[ping + 1] = k
    /\ t.ping_args[ping + 1] = ArgAfter(Zero, t.ping_incs[ping + 1], k)

\* C27: a Ping(i) made while the callback is inside GetSamples is never
\* lost: under every interleaving, once both calls have returned, slot i
\* rings from the reset amplitude, its amplitude, phase and count being
\* those of a ring that has run for the samples rendered since the trigger.
C27_PingIsNeverLost ==
    BothReturnedAfterPing =>
        \E k \in 0..tone_gen.ping_samples :
            RingsFromReset(tone_gen, op.ind, k)

\* C27: both calls have returned and the renderer's write-back has undone
\* the trigger: the slot holds the amplitude of the ring that was running
\* before the Ping, decayed by the callback, and the count of a fresh ring.
C27_Witness ==
    /\ BothReturnedAfterPing
    /\ tone_gen.ping_amps[op.ind + 1] =
          AmpAfter(tone_gen.ping_reset_amp, tone_gen.ping_decay,
                   1 + StreamSamples)
    /\ tone_gen.ping_inds[op.ind + 1] = StreamSamples

\* The callback is inside one of its loops, holding a range made earlier
InsideLoop ==
    /\ audio_thread # <<>>
    /\ audio_thread.pc \in {"slot", "ngen", "finc", "farg", "famp",
                            "ping_amps", "ping_args", "ping_inds", "note"}

\* The other thread is inside ResetPings or ResetChord
InsideReset ==
    /\ main_thread # <<>>
    /\ \/ \E k \in 1..Len(ResetPingsOrder) : main_thread.pc = ResetPingsOrder[k]
       \/ \E k \in 1..Len(ResetChordOrder) : main_thread.pc = ResetChordOrder[k]

\* C28: under every interleaving of the audio callback with Ping,
\* ChangeChord and SetupPings made while the stream runs, no index the
\* callback uses (j into args, incs, amps; ping into ping_inds, ping_incs,
\* ping_args, ping_amps) is out of the bounds of the list at that moment:
\* no statement of GetSamples or GeneratePingSignal raises IndexError,
\* even while a reset is replacing the lists.
C28_IndicesWithinBounds ==
    audio_thread # <<>> =>
        /\ audio_thread.pc # "IndexError"
        /\ (/\ InsideLoop
            /\ audio_thread.pc # "note"
            /\ audio_thread.ping < audio_thread.n) =>
              /\ audio_thread.ping < Len(tone_gen.ping_inds)
              /\ audio_thread.ping < Len(tone_gen.ping_incs)
              /\ audio_thread.ping < Len(tone_gen.ping_args)
              /\ audio_thread.ping < Len(tone_gen.ping_amps)
        /\ (audio_thread.pc = "note" /\ audio_thread.j < audio_thread.n) =>
              /\ audio_thread.j < Len(tone_gen.args)
              /\ audio_thread.j < Len(tone_gen.incs)
              /\ audio_thread.j < Len(tone_gen.amps)

\* C28: the callback is in the middle of a slot while ResetPings has
\* replaced some of the ping lists by longer ones and not yet the others.
C28_Witness ==
    /\ InsideLoop
    /\ InsideReset
    /\ audio_thread.pc \in {"famp", "ping_amps", "ping_args", "ping_inds"}
    /\ audio_thread.ping < audio_thread.n
    /\ Len(tone_gen.ping_args) > Len(tone_gen.ping_amps)

\* C28: the callback is adding the last note of a sample while ResetChord
\* is replacing the chord lists.
C28_WitnessChord ==
    /\ InsideLoop
    /\ InsideReset
    /\ audio_thread.pc = "note"
    /\ audio_thread.j = audio_thread.n - 1
    /\ main_thread.pc = "amps"

(***************************************************************************)
(* The Tk event loop of balls9.  timers holds what master.after and        *)
(* master.after_cancel keep: the callbacks pending, each with the id after *)
(* returned for it and the round of balls it was scheduled in, with the    *)
(* after_id of the Orbits and of the Baller object and is_running.  Tk     *)
(* hands out a new id at each call of after; handlers run one at a time.   *)
(***************************************************************************)
\* self.after_id = None
NoTimer == 0

\* Calls of after in a run
MaxTimers == 8

\* Before Baller.Start: Orbits.__init__ and Baller.__init__
TkAtStart ==
    [pending |-> {}, issued |-> 0, orbit_after_id |-> NoTimer,
     is_running |-> FALSE, after_id |-> NoTimer, round |-> 0, fired |-> <<>>]

\* self.master.after(ms, fn); the id returned is tk.issued + 1
MasterAfter(tk, fn) ==
    [tk EXCEPT !.pending = @ \cup {[id |-> tk.issued + 1, fn |-> fn,
                                    round |-> tk.round]},
               !.issued = @ + 1]

\* self.master.after_cancel(id), id not None: a callback that has run or
\* was cancelled is not there any more
AfterCancel(tk, id) == [tk EXCEPT !.pending = { p \in @ : p.id # id }]

\* Orbits.Start
OrbitsStart(tk) ==
    IF tk.is_running THEN tk
    ELSE [MasterAfter(tk, "Increment") EXCEPT !.is_running = TRUE,
                                        !.orbit_after_id = tk.issued + 1]

\* ClobberBalls without its call of after_cancel.
ClobberKeepsTimer(tk) ==
    [tk EXCEPT !.orbit_after_id = NoTimer, !.is_running = FALSE]

\* Orbits.ClobberBalls, as far as the timers go
ClobberTimer(tk) ==
    [(IF tk.orbit_after_id # NoTimer THEN AfterCancel(tk, tk.orbit_after_id)
      ELSE tk) EXCEPT !.orbit_after_id = NoTimer, !.is_running = FALSE]

\* self.orbit.ClobberBalls(); self.orbit.AddBalls(self.CreateBalls())
NewRound(tk) == [ClobberTimer(tk) EXCEPT !.round = @ + 1]

\* self.after_id = self.master.after(self.switch_int, self.ProgressChord),
\* not reached when ChangeChord raised
ProgressScheduled(tk, raised) ==
    IF raised THEN tk
    ELSE [MasterAfter(tk, "ProgressChord") EXCEPT !.after_id = tk.issued + 1]

\* Baller.Start; ChangeNotes raises for a chord that is None, and Start
\* ends there
BallerStart(tk, raised) ==
    IF raised THEN NewRound(tk)
    ELSE OrbitsStart(ProgressScheduled(NewRound(tk), FALSE))

\* Tk takes callback p off its list and calls it
Taken(tk, p) ==
    [tk EXCEPT !.pending = @ \ {p},
               !.fired = [id |-> p.id, fn |-> p.fn, round |-> p.round,
                          at |-> tk.round]]

\* The progressions of the runs: Baller's default, and one with a
\* specifier that ChordSpecToIndices does not know
TimerProgressions ==
    { << <<"I">>, <<"v", "i">>, <<"i", "i">>, <<"I", "V">>, <<"V">> >>,
      << <<"I">>, <<"X">>, <<"V">> >> }

\* The round and the detunings of the runs
TimerRounds == { <<100, 3>> }
TimerDetunes == { CHOOSE d \in DetuneDraws : TRUE }

\* main: Baller(...), SetProgression, Start; then root.mainloop()
InitTimers ==
    /\ StartFrom(TimerProgressions, TimerRounds, TimerDetunes)
    /\ timers = BallerStart(TkAtStart, Raises(chords, 0))

\* The pending callbacks that call fn
Pending(fn) == { p \in timers.pending : p.fn = fn }

\* Tk calls Orbits.Increment: the pings, then
\* self.after_id = self.master.after(int(self.interval * 1000), self.Increment)
FiresIncrement ==
    /\ timers # <<>>
    /\ timers.issued < MaxTimers
    /\ \E p \in Pending("Increment") :
          /\ IncrementRuns
          /\ timers' = IF op'.raised THEN Taken(timers, p)
                       ELSE [MasterAfter(Taken(timers, p), "Increment") EXCEPT
                               !.orbit_after_id = timers.issued + 1]

\* Tk calls Baller.ProgressChord
FiresProgressChord ==
    /\ timers # <<>>
    /\ timers.issued < MaxTimers
    /\ \E p \in Pending("ProgressChord") :
          /\ ProgressChordRuns(TimerDetunes)
          /\ timers' = ProgressScheduled(Taken(timers, p), op'.raised)

\* Baller.ProgressChordEvent, bound to the second mouse button:
\* if self.after_id: after_cancel(self.after_id); self.after_id = None;
\* self.ProgressChord()
ProgressChordEvent ==
    /\ timers # <<>>
    /\ timers.issued < MaxTimers
    /\ ProgressChordRuns(TimerDetunes)
    /\ timers' = ProgressScheduled(
                    [(IF timers.after_id # NoTimer
                      THEN AfterCancel(timers, timers.after_id) ELSE timers)
                        EXCEPT !.after_id = NoTimer],
                    op'.raised)

\* Baller.Restart, bound to the first mouse button:
\* self.master.after_cancel(self.after_id); self.after_id = None;
\* self.music.StopAudioOutput(); self.Start()
RestartEvent ==
    /\ timers # <<>>
    /\ timers.after_id # NoTimer
    /\ timers.issued + 1 < MaxTimers
    /\ RestartRuns(TimerRounds, TimerDetunes)
    /\ timers' = BallerStart([AfterCancel(timers, timers.after_id)
                                 EXCEPT !.after_id = NoTimer],
                             op'.raised)

\* Baller.Restart while self.after_id is None: after_cancel(None) raises
\* and the handler ends there
RestartRaises ==
    /\ timers # <<>>
    /\ Running
    /\ timers.after_id = NoTimer
    /\ op' = [name |-> "Restart", ind |-> prog_step_i, raised |-> TRUE]
    /\ UNCHANGED <<progression, prog_step_i, chords, n_balls, trail, music,
                   note_gen, call, prev, tone_gen, sig, applied, nops,
                   simVars, kernVars, procVars>>

NextTimers ==
    \/ FiresIncrement
    \/ FiresProgressChord
    \/ ProgressChordEvent
    \/ RestartEvent
    \/ RestartRaises

SpecTimers == InitTimers /\ [][NextTimers]_vars

\* C29: whatever the sequence of Start, Restart, ProgressChordEvent and
\* timer firings, at most one call of Orbits.Increment and at most one call
\* of Baller.ProgressChord is pending at any time, each the one its object's
\* after_id names, and a tick that fires was scheduled in the round of
\* balls it fires in: after a Restart no tick of the round before fires.
C29_OneTimerEach ==
    timers # <<>> =>
        /\ Cardinality(Pending("Increment")) <= 1
        /\ Cardinality(Pending("ProgressChord")) <= 1
        /\ \A p \in Pending("Increment") :
              p.id = timers.orbit_after_id /\ p.round = timers.round
        /\ \A p \in Pending("ProgressChord") : p.id = timers.after_id
        /\ (timers.fired # <<>> /\ timers.fired.fn = "Increment") =>
              timers.fired.round = timers.fired.at

\* C29: after a Restart a tick of the new round has fired, and one tick and
\* one progression step are pending.
C29_Witness ==
    /\ timers # <<>>
    /\ timers.round = 2
    /\ timers.fired # <<>>
    /\ timers.fired.fn = "Increment"
    /\ timers.fired.at = 2
    /\ Cardinality(Pending("Increment")) = 1
    /\ Cardinality(Pending("ProgressChord")) = 1

\* Collide has been applied to the two bodies
Collided == kout # <<>> /\ kout.op = "Collide"

\* The two bodies are at the same place of the circle: t1 of WillCollide
\* is 0
SameAngle ==
    Unwrapped(kin[1].angle, kin[2].angle)[1]
        = Unwrapped(kin[1].angle, kin[2].angle)[2]

\* C30: immediately after Collide resolved a pair (WillCollide held and
\* Elastic was applied) WillCollide of the same pair is false, for balls and
\* for pendulums, for every pair, two bodies at exactly the same angle
\* included.
C30_ResolvedPairIsApart ==
    Collided =>
        /\ kout.hit => ~kout.again
        /\ kout.phit => ~kout.pagain

\* C30: Collide resolved two bodies at exactly the same angle, and
\* WillCollide of the pair still holds.
C30_Witness ==
    /\ Collided
    /\ kin[1].angle = kin[2].angle
    /\ kin[1].v # kin[2].v
    /\ kout.hit /\ kout.again
    /\ kout.phit /\ kout.pagain

\* What holds of Collide: WillCollide of a resolved pair is false unless the
\* two bodies are at the same place, where it holds whatever the velocities.
C30_ApartUnlessSameAngle ==
    Collided =>
        /\ SameAngle => (kout.hit /\ kout.again /\ kout.phit /\ kout.pagain)
        /\ ~SameAngle => /\ kout.hit => ~kout.again
                         /\ kout.phit => ~kout.pagain
============================================================================
